---- MODULE Spec2Model ----
(***************************************************************************)
(* A model of the otc-operator: the per-kind reconcilers (Network, Subnet, *)
(* SecurityGroup, SecurityGroupRule, PublicIP, NATGateway, SNATRule), the  *)
(* shared Reconciler helpers (finalizer, status patch, deletion guard,     *)
(* Delete), the dependency resolver, the provider boundary and the         *)
(* provider client cache.                                                  *)
(***************************************************************************)
EXTENDS Integers, Sequences, FiniteSets, TLC

\* ------------------------------------------------------------------ bounds
\* External resources the cloud can ever hold (IDs are never reused).
MaxResources == 3
\* Injected failures and environment disturbances in one behaviour.
MaxFaults == 1
\* Generations of a ProviderConfig and versions of its secret (cache model).
MaxVersion == 2
\* Provider clients ever constructed (cache model).
MaxClients == 3
\* The largest MaxAttempts a retry.Do call is configured with.
MaxAttempts == 3
\* The longest sequence of condition-setter calls on one condition set.
MaxSetterCalls == 3

\* --------------------------------------------------------- condition types
condReady == "Ready"
condDependenciesReady == "DependenciesReady"
condSynced == "Synced"

NoOpts == [Reason |-> "", Message |-> ""]
WithReason(reason) == [Reason |-> reason, Message |-> ""]
WithMessage(message) == [Reason |-> "", Message |-> message]
WithReasonMessage(reason, message) == [Reason |-> reason, Message |-> message]

\* applyOptions: the defaults, overridden by the options that were given.
applyOptions(defaultReason, defaultMessage, opts) ==
  [Reason |-> IF opts.Reason = "" THEN defaultReason ELSE opts.Reason,
   Message |-> IF opts.Message = "" THEN defaultMessage ELSE opts.Message]

NewCondition(typ, status, reason, message, generation) ==
  [Type |-> typ, Status |-> status, Reason |-> reason, Message |-> message,
   ObservedGeneration |-> generation]

\* The value of a singleton set: { e(x) : x \in {v} } names v once for the
\* several uses e makes of it, as a local variable does.
Only(S) == CHOOSE v \in S : TRUE

\* meta.FindStatusCondition: the first condition of the type, as the set of
\* its index (empty when there is none).
FindCondition(conditions, typ) ==
  {i \in 1..Len(conditions) :
     /\ conditions[i].Type = typ
     /\ \A j \in 1..(i - 1) : conditions[j].Type # typ}

\* An Apply that appends the condition whether or not its type is present.
ApplyAppends(conditions, c) == Append(conditions, c)

\* ConditionBuilder.Apply = meta.SetStatusCondition: replace the condition of
\* the same type in place, append it when the type is new.
Apply(conditions, c) ==
  Only({ IF FindCondition(cs, c.Type) = {}
         THEN Append(cs, c)
         ELSE [i \in 1..Len(cs) |-> IF i \in FindCondition(cs, c.Type) THEN c ELSE cs[i]]
         : cs \in {conditions} })

IsStatusConditionTrue(conditions, typ) ==
  \E i \in FindCondition(conditions, typ) : conditions[i].Status = "True"

SetSynced(conditions, generation, opts) ==
  LET o == applyOptions("Synced", "External resource matches desired state", opts)
  IN Apply(conditions, NewCondition(condSynced, "True", o.Reason, o.Message, generation))

SetNotSynced(conditions, generation, opts) ==
  LET o == applyOptions("Reconciling", "Resource is being reconciled", opts)
  IN Apply(conditions, NewCondition(condSynced, "False", o.Reason, o.Message, generation))

SetReady(conditions, generation, opts) ==
  LET o == applyOptions("Ready", "Resource is ready", opts)
  IN Apply(conditions, NewCondition(condReady, "True", o.Reason, o.Message, generation))

\* A SetNotReady that leaves a Ready condition that is True as it is.
SetNotReadyUnlessReady(conditions, generation, opts) ==
  IF IsStatusConditionTrue(conditions, condReady) THEN conditions
  ELSE Apply(conditions, NewCondition(condReady, "False", "Failed", "Resource is not ready",
                                      generation))

SetNotReady(conditions, generation, opts) ==
  LET o == applyOptions("Failed", "Resource is not ready", opts)
  IN Apply(conditions, NewCondition(condReady, "False", o.Reason, o.Message, generation))

SetReconciliationFailed(conditions, generation, opts) ==
  SetNotReady(SetNotSynced(conditions, generation, opts), generation, opts)

SetSyncedAndReady(conditions, generation) ==
  SetReady(SetSynced(conditions, generation, NoOpts), generation, NoOpts)

SetCreating(conditions, generation) ==
  SetNotReady(
    SetNotSynced(conditions, generation,
                 WithReasonMessage("Creating", "Creating external resource")),
    generation,
    WithReasonMessage("Creating", "Resource is being created and is not yet available"))

SetProvisioning(conditions, generation, opts) ==
  LET o == applyOptions("Provisioning", "Resource is provisioning", opts)
  IN SetNotReady(SetNotSynced(conditions, generation, o), generation, o)

SetProvisioned(conditions, generation) ==
  SetReady(
    SetSynced(conditions, generation,
              WithReasonMessage("Provisioned",
                                "External resource has been successfully provisioned")),
    generation,
    WithReasonMessage("Provisioned", "Resource is ready for use"))

SetUpdating(conditions, generation) ==
  SetNotReady(
    SetNotSynced(conditions, generation,
                 WithReasonMessage("Reconciling",
                                   "Updating external resource to match desired state")),
    generation,
    WithReasonMessage("Reconciling", "Resource is being updated"))

SetStopped(conditions, generation, opts) ==
  LET o == applyOptions("Stopped", "Resource is stopped", opts)
  IN SetNotReady(SetNotSynced(conditions, generation, o), generation, o)

SetDependenciesReady(conditions, generation) ==
  Apply(conditions, NewCondition(condDependenciesReady, "True", "DependenciesResolved",
                                 "All dependencies are ready", generation))

SetDependenciesNotReady(conditions, message, generation) ==
  Apply(conditions, NewCondition(condDependenciesReady, "False",
                                 "DependenciesNotResolved", message, generation))

SetProviderConfigReady(conditions, generation) ==
  Apply(conditions, NewCondition(condDependenciesReady, "True", "ProviderConfigReady",
                                 "ProviderConfig is ready and available", generation))

SetProviderConfigNotReady(conditions, message, generation) ==
  Apply(conditions, NewCondition(condDependenciesReady, "False",
                                 "ProviderConfigNotReady", message, generation))

SetTerminating(conditions, generation) ==
  SetNotReady(
    SetNotSynced(conditions, generation,
                 WithReasonMessage("Deleting", "Resource deletion is in progress")),
    generation,
    WithReasonMessage("Deleting", "Resource is being deleted"))

SetDeletionBlocked(conditions, generation, opts) ==
  LET o == applyOptions("DeletionBlocked",
                        "Resource deletion is blocked by dependencies", opts)
  IN SetNotReady(SetNotSynced(conditions, generation, o), generation, o)

SetDeleted(conditions, generation) ==
  SetNotReady(
    SetSynced(conditions, generation,
              WithReasonMessage("Deleted",
                                "External resource has been successfully deleted")),
    generation,
    WithReasonMessage("Deleted", "Resource is terminated"))

SetOrphaned(conditions, generation, opts) ==
  LET o == applyOptions("Orphaned",
                        "External resource was preserved due to orphanOnDelete policy",
                        opts)
  IN SetNotReady(
       SetSynced(conditions, generation, o),
       generation,
       WithReasonMessage(o.Reason, "Resource orphaned, no longer managed by operator"))

\* ------------------------------------------------------- results and errors
\* ctrl.Result
Result(requeue, after) == [Requeue |-> requeue, RequeueAfter |-> after]
NoRequeue == Result(FALSE, 0)
RequeueNow == Result(TRUE, 0)
RequeueAfter(seconds) == Result(FALSE, seconds)

\* The fixed delay of every resource reconciler (networkRequeueDelay and its
\* six siblings), the delay after an unresolved dependency, and the delay
\* after a create that asks for a readiness poll.
requeueDelay == 30
dependencyRequeueDelay == 10
postCreateRequeueDelay == 5

\* A Go error: its text and whether an API "not found" status is found in its
\* chain by apierrors.IsNotFound. nil is the error with the empty text.
Error(text, notFound) == [text |-> text, notFound |-> notFound]
Nil == Error("", FALSE)
\* fmt.Errorf("...: %w", err) keeps the chain, fmt.Errorf("... %v") does not.
Wrap(prefix, err) == Error(prefix \o ": " \o err.text, err.notFound)
Errorf(text) == Error(text, FALSE)
IsNotFound(err) == err.notFound
ErrNotFound == Errorf("not found")
ErrFailedToCreate == Errorf("failed to create")
ErrMaxRetriesReached == Errorf("exceeded max attempts")
ErrCanceled == Errorf("context canceled")
\* An error of the Kubernetes API or of the cloud API that is not a 404.
ErrAPI == Errorf("api unavailable")
ErrAPINotFound(what) == Error(what \o " not found", TRUE)

\* ----------------------------------------------------------- kinds, objects
Kinds == {"Network", "Subnet", "SecurityGroup", "SecurityGroupRule", "PublicIP",
          "NATGateway", "SNATRule"}
Objects == {"net", "sub", "sg", "sgr", "pip", "nat", "snat"}

KindOf(o) ==
  CASE o = "net" -> "Network"
    [] o = "sub" -> "Subnet"
    [] o = "sg" -> "SecurityGroup"
    [] o = "sgr" -> "SecurityGroupRule"
    [] o = "pip" -> "PublicIP"
    [] o = "nat" -> "NATGateway"
    [] o = "snat" -> "SNATRule"
    [] o = "net2" -> "Network"
    [] o = "sub2" -> "Subnet"
    [] o \in {"sg2", "sg-nat", "sg-pip"} -> "SecurityGroup"
    [] o = "pip2" -> "PublicIP"
    [] o = "nat2" -> "NATGateway"

\* Further objects of the namespace that only the dependency resolver meets: a
\* second object of each kind a dependency names, and a SecurityGroup that has
\* the name of the NATGateway or of the PublicIP (names are unique per kind).
Siblings == {"net2", "sub2", "sg2", "nat2", "pip2", "sg-nat", "sg-pip"}
NameOf(o) ==
  CASE o = "sg-nat" -> "nat"
    [] o = "sg-pip" -> "pip"
    [] OTHER -> o
\* The value of the label app: an object's own name, and for the second
\* object of a kind the name of the first.
AppOf(o) ==
  CASE o = "net2" -> "net"
    [] o = "sub2" -> "sub"
    [] o = "sg2" -> "sg"
    [] o = "nat2" -> "nat"
    [] o = "pip2" -> "pip"
    [] OTHER -> o

\* The i-th resource the cloud created has this ID; the x- IDs are resources
\* of the cloud that no object of the cluster manages.
ResourceID(i) == "r" \o ToString(i)

\* A dependency of a spec: an explicit ID, a reference by name, or a label
\* selector; "" is the nil pointer.
Dependency(id, ref, selector) == [ID |-> id, Ref |-> ref, Selector |-> selector]
NoDependency == Dependency("", "", "")
DependencyKinds == {"Network", "Subnet", "SecurityGroup", "NATGateway", "PublicIP"}
NoDependencies == [k \in DependencyKinds |-> NoDependency]

\* The objects of a cluster, those whose spec sets orphanOnDelete, and the
\* dependencies their specs name. Every object carries the label app (AppOf).
Scenario(members, orphans, deps) == [members |-> members, orphans |-> orphans, deps |-> deps]
DepsOf(o, network, subnet, securityGroup, natGateway, publicIP) ==
  o :> [Network |-> network, Subnet |-> subnet, SecurityGroup |-> securityGroup,
        NATGateway |-> natGateway, PublicIP |-> publicIP]
ByID(id) == Dependency(id, "", "")
ByRef(name) == Dependency("", name, "")
BySelector(app) == Dependency("", "", app)

Scenarios ==
  { Scenario({"net", "sub"}, {},
             DepsOf("sub", ByRef("net"), NoDependency, NoDependency, NoDependency, NoDependency)),
    Scenario({"net", "sub"}, {},
             DepsOf("sub", BySelector("net"), NoDependency, NoDependency, NoDependency, NoDependency)),
    Scenario({"net", "nat"}, {},
             DepsOf("nat", ByRef("net"), ByID("x-sub"), NoDependency, NoDependency, NoDependency)),
    Scenario({"sub", "nat"}, {},
             DepsOf("sub", ByID("x-net"), NoDependency, NoDependency, NoDependency, NoDependency)
             @@ DepsOf("nat", ByID("x-net"), ByRef("sub"), NoDependency, NoDependency, NoDependency)),
    Scenario({"sub", "snat"}, {},
             DepsOf("sub", ByID("x-net"), NoDependency, NoDependency, NoDependency, NoDependency)
             @@ DepsOf("snat", NoDependency, ByRef("sub"), NoDependency, ByID("x-nat"), ByID("x-pip"))),
    Scenario({"pip", "snat"}, {},
             DepsOf("snat", NoDependency, ByID("x-sub"), NoDependency, ByID("x-nat"),
                    ByID(ResourceID(1)))),
    Scenario({"nat", "snat"}, {},
             DepsOf("nat", ByID("x-net"), ByID("x-sub"), NoDependency, NoDependency, NoDependency)
             @@ DepsOf("snat", NoDependency, ByID("x-sub"), NoDependency, ByID(ResourceID(1)),
                       ByID("x-pip"))),
    Scenario({"sg", "sgr"}, {},
             DepsOf("sgr", NoDependency, NoDependency, ByRef("sg"), NoDependency, NoDependency)),
    Scenario({"sg", "sgr"}, {"sg", "sgr"},
             DepsOf("sgr", NoDependency, NoDependency, ByRef("sg"), NoDependency, NoDependency)) }

\* Clusters of a single object whose dependencies are given by ID.
SingleScenarios ==
  { Scenario({"net"}, {}, <<>>),
    Scenario({"sg"}, {}, <<>>),
    Scenario({"pip"}, {}, <<>>),
    Scenario({"sub"}, {},
             DepsOf("sub", ByID("x-net"), NoDependency, NoDependency, NoDependency, NoDependency)),
    Scenario({"sgr"}, {},
             DepsOf("sgr", NoDependency, NoDependency, ByID("x-sg"), NoDependency, NoDependency)),
    Scenario({"nat"}, {},
             DepsOf("nat", ByID("x-net"), ByID("x-sub"), NoDependency, NoDependency, NoDependency)),
    Scenario({"snat"}, {},
             DepsOf("snat", NoDependency, ByID("x-sub"), NoDependency, ByID("x-nat"),
                    ByID("x-pip"))) }

SpecDependencies(scn, o) ==
  IF o \in DOMAIN scn.deps THEN scn.deps[o] ELSE NoDependencies

\* --------------------------------------------------------------- the state
NoResolved == [NetworkID |-> "", SubnetID |-> "", SecurityGroupID |-> "",
               NATGatewayID |-> "", PublicIPID |-> ""]

\* The status of a managed object. lastAppliedSpec is <<>> (nil) or <<spec>>;
\* lastSyncTime is FALSE (nil) or TRUE (a time).
EmptyStatus ==
  [conditions |-> <<>>, externalID |-> "", lastAppliedSpec |-> <<>>,
   lastSyncTime |-> FALSE, resolvedDependencies |-> NoResolved]

\* The spec fields the reconcilers compare: the description (which follows the
\* generation, so that every edit is a change).
SpecAt(generation) == [description |-> "d" \o ToString(generation)]

NewObject(present, orphan) ==
  [exists |-> present, deleting |-> FALSE, finalizer |-> FALSE, generation |-> 1,
   spec |-> SpecAt(1), orphanOnDelete |-> orphan, status |-> EmptyStatus]

VARIABLES
  scenario,   \* the cluster's objects and their dependency specs (fixed)
  objs,       \* the API server: name -> stored object
  cloud,      \* the cloud: the i-th record is the resource with ID ResourceID(i)
  pc,         \* the ProviderConfig: exists, ready (its Ready condition), generation
  secret,     \* the credentials secret: exists, resourceVersion
  cache,      \* ProviderCache.cache for the one key: <<>> or <<providerEntry>>
  nextClient, \* provider clients constructed so far
  impl,       \* the Provider implementation behind the interface
  faults,     \* failures and disturbances that may still be injected
  out,        \* the last step, when a reconcile: object, path, calls, result
  procs,      \* cache model: the concurrent GetOrCreate calls in flight
  evicted,    \* cache model: the clients Invalidate has removed
  requeued,   \* the objects that are newly submitted or whose last reconcile
              \* returned a requeue request or an error
  do,         \* retry model: the one retry.Do call, its options and its context
  conds,      \* condition model: a condition set and the setter calls made on it
  resolution  \* resolver model: one Resolve<Kind> call, its inputs and its result

vars == <<scenario, objs, cloud, pc, secret, cache, nextClient, impl, faults, out,
          procs, evicted, requeued, do, conds, resolution>>

\* ------------------------------------------------------ the provider: state
\* Info.State() of each kind, from the status string the cloud reports.
State(kind, status) ==
  CASE kind \in {"Network"} ->
         (CASE status \in {"ACTIVE", "OK"} -> "Ready"
            [] status \in {"DOWN", "ERROR", "error"} -> "Failed"
            [] status \in {"CREATING"} -> "Provisioning"
            [] OTHER -> "Unknown")
    [] kind = "Subnet" ->
         (CASE status \in {"ACTIVE", "OK"} -> "Ready"
            [] status \in {"DOWN", "ERROR", "error"} -> "Failed"
            [] status \in {"CREATING", "UNKNOWN"} -> "Provisioning"
            [] OTHER -> "Unknown")
    [] kind = "PublicIP" ->
         (CASE status \in {"ACTIVE", "OK", "ELB", "VPN"} -> "Ready"
            [] status \in {"DOWN", "FREEZED"} -> "Stopped"
            [] status \in {"ERROR", "error"} -> "Failed"
            [] status \in {"BINDING", "NOTIFYING", "NOTIFY_DELETE", "PENDING_CREATE",
                           "PENDING_UPDATE", "PENDING_DELETE"} -> "Provisioning"
            [] OTHER -> "Unknown")
    [] kind \in {"NATGateway", "SNATRule"} ->
         (CASE status \in {"ACTIVE"} -> "Ready"
            [] status \in {"INACTIVE", "DOWN", "ERROR"} -> "Failed"
            [] status \in {"PENDING_CREATE", "PENDING_UPDATE", "PENDING_DELETE"} ->
                 "Provisioning"
            [] OTHER -> "Unknown")
    [] OTHER -> "Ready"

\* The statuses the cloud shows for a resource of each kind (security groups
\* and their rules have none).
Statuses(kind) ==
  CASE kind = "Network" -> {"ACTIVE", "CREATING", "ERROR"}
    [] kind = "Subnet" -> {"ACTIVE", "UNKNOWN", "ERROR"}
    [] kind = "PublicIP" -> {"ACTIVE", "PENDING_CREATE", "ERROR", "DOWN"}
    [] kind = "NATGateway" -> {"ACTIVE", "PENDING_CREATE", "ERROR"}
    [] kind = "SNATRule" -> {"ACTIVE", "PENDING_CREATE", "INACTIVE"}
    [] OTHER -> {""}

\* The status Get<Kind> copies into the info: GetSNATRule copies none.
InfoStatus(kind, status) == IF kind = "SNATRule" THEN "" ELSE status

\* waitFor<Kind>: the error of the readiness wait that follows the create
\* call, given the status the resource shows when the wait ends. A status that
\* keeps the wait polling ends it with the retry limit.
HasWait(kind) == kind \notin {"SecurityGroup", "SecurityGroupRule"}
waitFor(kind, status) ==
  LET s == IF kind = "SNATRule"
           THEN (CASE status \in {"ACTIVE", "OK"} -> "Ready"
                   [] status = "INACTIVE" -> "Failed"
                   [] OTHER -> "Unknown")
           ELSE State(kind, status)
  IN CASE s = "Ready" -> Nil
       [] s = "Failed" -> Wrap("failed to wait for creation", ErrFailedToCreate)
       [] s = "Stopped" /\ kind = "PublicIP" ->
            Wrap("failed to wait for creation",
                 Errorf("public IP entered a non-ready terminal state: " \o status))
       [] OTHER -> Wrap("failed to wait for creation", ErrMaxRetriesReached)

Resource(kind, status, owner, description) ==
  [kind |-> kind, status |-> status, exists |-> TRUE, owner |-> owner,
   description |-> description]

\* The index of the existing resource with this ID, as a set (empty: a 404).
Lookup(cl, id) == {i \in 1..Len(cl) : ResourceID(i) = id /\ cl[i].exists}

\* ---------------------------------------------------- the reconcile context
\* rc is the Reconciler of one invocation together with everything the
\* invocation reads and writes: the object in memory and its original copy,
\* the API server, the cloud, the provider cache, the provider calls issued,
\* the failure injected (in) and the failure points reached.
Call(rc, name) == [rc EXCEPT !.calls = Append(@, name)]
Reach(rc, point) == [rc EXCEPT !.reached = @ \cup {point}]
Fails(rc, point) == rc.in.fail = point
Return(rc, result, err) == [rc EXCEPT !.result = result, !.err = err]
WithConditions(rc, conditions) == [rc EXCEPT !.object.status.conditions = conditions]
Conditions(rc) == rc.object.status.conditions

\* Create<Kind>: the create call, then the readiness wait; the ID is returned
\* only when both succeed.
ProviderCreate(rc) ==
  LET status == IF ~HasWait(rc.kind) THEN ""
                ELSE IF Fails(rc, "wait") THEN rc.in.status ELSE "ACTIVE"
      werr == IF HasWait(rc.kind) THEN waitFor(rc.kind, status) ELSE Nil
  IN IF Fails(rc, "apiCreate")
     THEN [rc |-> Reach(Call(rc, "Create" \o rc.kind), "apiCreate"), id |-> "",
           err |-> Wrap("failed to create", ErrAPI)]
     ELSE [rc |-> [Reach(Call(rc, "Create" \o rc.kind),
                         IF HasWait(rc.kind) THEN "wait" ELSE "apiCreate")
                     EXCEPT !.reached = @ \cup {"apiCreate"},
                            !.cloud = Append(@, Resource(rc.kind, status, rc.name,
                                                         rc.spec.description))],
           id |-> IF werr # Nil THEN "" ELSE ResourceID(Len(rc.cloud) + 1),
           err |-> werr]

\* Get<Kind> of the OTC provider: a 404 is ErrNotFound.
GetOTC(rc, id) ==
  LET r0 == Reach(Call(rc, "Get" \o rc.kind), "apiGet")
      found == Lookup(rc.cloud, id)
  IN IF Fails(rc, "apiGet")
     THEN [rc |-> r0, info |-> <<>>, err |-> Wrap("failed to get", ErrAPI)]
     ELSE IF found = {}
     THEN [rc |-> r0, info |-> <<>>, err |-> ErrNotFound]
     ELSE LET i == CHOOSE i \in found : TRUE
          IN [rc |-> r0,
              info |-> <<[ID |-> id, Description |-> rc.cloud[i].description,
                          Status |-> InfoStatus(rc.kind, rc.cloud[i].status)]>>,
              err |-> Nil]

\* Get<Kind> as the Provider interface documents it: nil without an error
\* when the resource is not found.
GetContract(rc, id) ==
  Only({ IF g.err = ErrNotFound THEN [g EXCEPT !.err = Nil] ELSE g
         : g \in {GetOTC(rc, id)} })

\* Get<Kind> behind the Provider interface; the reconcile context keeps what
\* the call returned (got) next to whether the cloud reported a 404.
ProviderGet(rc, id) ==
  Only({ [g EXCEPT !.rc.got = <<[notFound |-> ~Fails(rc, "apiGet") /\ Lookup(rc.cloud, id) = {},
                                info |-> g.info, err |-> g.err]>>]
         : g \in {IF rc.impl = "contract" THEN GetContract(rc, id) ELSE GetOTC(rc, id)} })

\* Update<Kind>: writes the description; any failure, a 404 too, is an error.
ProviderUpdate(rc, id, description) ==
  LET r0 == Reach(Call(rc, "Update" \o rc.kind), "apiUpdate")
      found == Lookup(rc.cloud, id)
  IN IF Fails(rc, "apiUpdate") \/ found = {}
     THEN [rc |-> r0, err |-> Wrap("failed to update", ErrAPI)]
     ELSE LET i == CHOOSE i \in found : TRUE
          IN [rc |-> [r0 EXCEPT !.cloud[i].description = description], err |-> Nil]

\* Delete<Kind>: idempotent, a 404 is a success.
ProviderDelete(rc, id) ==
  LET r0 == Reach(Call(rc, "Delete" \o rc.kind), "apiDelete")
      found == Lookup(rc.cloud, id)
  IN IF Fails(rc, "apiDelete")
     THEN [rc |-> r0, err |-> Wrap("failed to delete", ErrAPI)]
     ELSE IF found = {}
     THEN [rc |-> r0, err |-> Nil]
     ELSE LET i == CHOOSE i \in found : TRUE
          IN [rc |-> [r0 EXCEPT !.cloud[i].exists = FALSE], err |-> Nil]

\* ------------------------------------------------------ the API server calls
Gone == NewObject(FALSE, FALSE)

\* client.Update(rc.object): writes the finalizers; an object that is being
\* deleted and loses its last finalizer is removed. The response replaces the
\* object in memory, its status included.
Update(rc, point) ==
  LET cur == rc.objs[rc.name]
      new == [cur EXCEPT !.finalizer = rc.object.finalizer]
  IN IF Fails(rc, point) \/ ~cur.exists
     THEN [rc |-> Reach(rc, point), err |-> ErrAPI]
     ELSE [rc |-> [Reach(rc, point) EXCEPT
                     !.objs[rc.name] = IF new.deleting /\ ~new.finalizer THEN Gone ELSE new,
                     !.object.status = cur.status],
           err |-> Nil]

\* A merge patch that leaves out an external ID the object in memory has emptied.
MergePatchOmitEmpty(stored, original, modified) ==
  [f \in DOMAIN stored |->
     IF f = "resolvedDependencies"
     THEN [k \in DOMAIN stored[f] |->
             IF modified[f][k] # original[f][k] THEN modified[f][k] ELSE stored[f][k]]
     ELSE IF f = "externalID" /\ modified[f] = "" THEN stored[f]
     ELSE IF modified[f] # original[f] THEN modified[f] ELSE stored[f]]

\* The JSON merge patch of MergeFrom(original): a field is sent only when the
\* object in memory differs from the original copy in it.
MergePatch(stored, original, modified) ==
  [f \in DOMAIN stored |->
     IF f = "resolvedDependencies"
     THEN [k \in DOMAIN stored[f] |->
             IF modified[f][k] # original[f][k] THEN modified[f][k] ELSE stored[f][k]]
     ELSE IF modified[f] # original[f] THEN modified[f] ELSE stored[f]]

\* Reconciler.UpdateStatus: client.Status().Patch(object, MergeFrom(original)).
UpdateStatus(rc, point) ==
  IF Fails(rc, point) \/ ~rc.objs[rc.name].exists
  THEN [rc |-> Reach(rc, point), err |-> ErrAPI]
  ELSE Only({ [rc |-> [Reach(rc, point) EXCEPT !.objs[rc.name].status = new,
                                               !.object.status = new],
               err |-> Nil]
              : new \in {MergePatch(rc.objs[rc.name].status, rc.originalObject.status,
                                    rc.object.status)} })

\* An AddFinalizer that reports added = false after it stored the finalizer,
\* so that the invocation carries on.
AddFinalizerAndGoOn(rc) ==
  IF rc.object.finalizer
  THEN [added |-> FALSE, rc |-> Return(rc, NoRequeue, Nil)]
  ELSE Only({ IF u.err # Nil
              THEN [added |-> TRUE, rc |-> Return(u.rc, NoRequeue, u.err)]
              ELSE [added |-> FALSE, rc |-> Return(u.rc, NoRequeue, Nil)]
              : u \in {Update([rc EXCEPT !.object.finalizer = TRUE], "finalizerUpdate")} })

\* Reconciler.AddFinalizer
AddFinalizer(rc) ==
  IF rc.object.finalizer
  THEN [added |-> FALSE, rc |-> Return(rc, NoRequeue, Nil)]
  ELSE Only({ IF u.err # Nil
              THEN [added |-> TRUE, rc |-> Return(u.rc, NoRequeue, u.err)]
              ELSE [added |-> TRUE, rc |-> Return(u.rc, RequeueNow, Nil)]
              : u \in {Update([rc EXCEPT !.object.finalizer = TRUE], "finalizerUpdate")} })

\* Reconciler.RemoveFinalizer
RemoveFinalizer(rc) == Update([rc EXCEPT !.object.finalizer = FALSE], "finalizerRemove")

\* A CheckProviderConfigReady that only asks whether the ProviderConfig exists.
CheckProviderConfigExists(rc) ==
  LET r0 == Reach(rc, "providerConfigGet")
  IN IF Fails(rc, "providerConfigGet")
     THEN [rc |-> r0, err |-> Wrap("failed to get ProviderConfig", ErrAPI)]
     ELSE IF ~pc.exists
     THEN [rc |-> r0, err |-> Errorf("ProviderConfig not found in namespace")]
     ELSE [rc |-> r0, err |-> Nil]

\* CheckProviderConfigReady: the ProviderConfig exists and its Ready condition
\* is true.
CheckProviderConfigReady(rc) ==
  LET r0 == Reach(rc, "providerConfigGet")
  IN IF Fails(rc, "providerConfigGet")
     THEN [rc |-> r0, err |-> Wrap("failed to get ProviderConfig", ErrAPI)]
     ELSE IF ~pc.exists
     THEN [rc |-> r0, err |-> Errorf("ProviderConfig not found in namespace")]
     ELSE IF ~pc.ready
     THEN [rc |-> r0, err |-> Errorf("referenced ProviderConfig is not ready")]
     ELSE [rc |-> r0, err |-> Nil]

\* Reconciler.CheckProviderConfig
CheckProviderConfig(rc) ==
  Only({ IF c.err # Nil
         THEN [shouldRequeue |-> TRUE,
               rc |-> Return(WithConditions(c.rc, SetProviderConfigNotReady(
                               Conditions(c.rc), c.err.text, rc.generation)),
                             RequeueAfter(requeueDelay), Nil)]
         ELSE [shouldRequeue |-> FALSE,
               rc |-> WithConditions(c.rc, SetProviderConfigReady(Conditions(c.rc),
                                                                  rc.generation))]
         : c \in {CheckProviderConfigReady(rc)} })

\* ------------------------------------------------------- the provider cache
providerEntry(provider, configGeneration, secretResourceVersion) ==
  [provider |-> provider, configGeneration |-> configGeneration,
   secretResourceVersion |-> secretResourceVersion]

\* The secret's resourceVersion as GetOrCreate reads it: 0 stands for the empty
\* string it keeps when the secret cannot be read.
currentSecretVersion(s) == IF s.exists THEN s.resourceVersion ELSE 0

\* A validity test that compares the generation alone.
entryValidIgnoringSecret(c, generation, secretVersion) ==
  /\ c # <<>>
  /\ c[1].configGeneration = generation

\* The validity test of GetOrCreate: an entry exists and both of its tags equal
\* the values just read.
entryValid(c, generation, secretVersion) ==
  /\ c # <<>>
  /\ c[1].configGeneration = generation
  /\ c[1].secretResourceVersion = secretVersion

\* provider.NewFromProviderConfig: reads the ProviderConfig and the secret
\* again; an API "not found" of either stays in the error chain.
NewFromProviderConfig(p, s, client) ==
  IF ~p.exists
  THEN [provider |-> 0, err |-> Wrap("failed to get ProviderConfig",
                                     ErrAPINotFound("ProviderConfig"))]
  ELSE IF ~s.exists
  THEN [provider |-> 0,
        err |-> Wrap("failed to resolve credentials for ProviderConfig",
                     Wrap("failed to get credentials secret", ErrAPINotFound("Secret")))]
  ELSE [provider |-> client, err |-> Nil]

\* ProviderCache.GetOrCreate, run without interleaving inside one reconcile.
GetOrCreate(rc) ==
  LET r0 == Reach(rc, "providerInit")
      sv == currentSecretVersion(secret)
      new == NewFromProviderConfig(pc, secret, rc.nextClient + 1)
  IN IF Fails(rc, "providerInit")
     THEN [rc |-> r0, err |-> Wrap("failed to get ProviderConfig", ErrAPI)]
     ELSE IF ~pc.exists
     THEN [rc |-> [r0 EXCEPT !.cache = <<>>],
           err |-> Wrap("failed to get ProviderConfig", ErrAPINotFound("ProviderConfig"))]
     ELSE IF entryValid(rc.cache, pc.generation, sv)
     THEN [rc |-> r0, err |-> Nil]
     ELSE IF new.err # Nil
     THEN [rc |-> r0, err |-> new.err]
     ELSE [rc |-> [r0 EXCEPT !.cache = <<providerEntry(new.provider, pc.generation, sv)>>,
                             !.nextClient = new.provider],
           err |-> Nil]

\* ------------------------------------------------- the dependency resolver
\* The objects in the order a list call returns them (by name).
ListOrder == <<"nat", "nat2", "net", "net2", "pip", "pip2", "sg-nat", "sg-pip", "sg", "sg2",
               "sgr", "snat", "sub", "sub2">>
ListOf(rc, kind) ==
  SelectSeq(ListOrder,
            LAMBDA x : x \in DOMAIN rc.objs /\ KindOf(x) = kind /\ rc.objs[x].exists)

\* resolveByRef: a Get of the named object as the given Go type.
resolveByRef(rc, name, type) ==
  LET r0 == Reach(rc, "dependencyGet")
  IN IF Fails(rc, "dependencyGet")
     THEN [rc |-> r0, obj |-> "", err |-> ErrAPI]
     ELSE IF \E x \in DOMAIN rc.objs :
                NameOf(x) = name /\ KindOf(x) = type /\ rc.objs[x].exists
     THEN [rc |-> r0,
           obj |-> CHOOSE x \in DOMAIN rc.objs : NameOf(x) = name /\ KindOf(x) = type,
           err |-> Nil]
     ELSE [rc |-> r0, obj |-> "", err |-> ErrAPINotFound(type)]

\* A resolveBySelector that takes the first of several matches.
resolveBySelectorFirst(rc, app, kind) ==
  LET r0 == Reach(rc, "dependencyGet")
      items == SelectSeq(ListOf(rc, kind), LAMBDA x : AppOf(x) = app)
  IN IF Fails(rc, "dependencyGet")
     THEN [rc |-> r0, obj |-> "", err |-> Wrap("failed to list resources with selector", ErrAPI)]
     ELSE IF Len(items) = 0
     THEN [rc |-> r0, obj |-> "", err |-> Errorf("no resources found matching selector")]
     ELSE [rc |-> r0, obj |-> items[1], err |-> Nil]

\* resolveBySelector: lists the kind by label and wants exactly one match. A
\* selector is admitted only with matchLabels (validateLabelSelector), so the
\* test for empty matchLabels never fires.
resolveBySelector(rc, app, kind) ==
  LET r0 == Reach(rc, "dependencyGet")
      items == SelectSeq(ListOf(rc, kind), LAMBDA x : AppOf(x) = app)
  IN IF Fails(rc, "dependencyGet")
     THEN [rc |-> r0, obj |-> "", err |-> Wrap("failed to list resources with selector", ErrAPI)]
     ELSE IF Len(items) = 0
     THEN [rc |-> r0, obj |-> "", err |-> Errorf("no resources found matching selector")]
     ELSE IF Len(items) > 1
     THEN [rc |-> r0, obj |-> "",
           err |-> Errorf("expected exactly one resource to match selector, but found "
                          \o ToString(Len(items)))]
     ELSE [rc |-> r0, obj |-> items[1], err |-> Nil]

\* A checkReadinessAndGetID that is content with an external ID.
checkExternalIDOnly(rc, obj, kind) ==
  LET status == rc.objs[obj].status
  IN IF KindOf(obj) \notin {"Network", "Subnet", "SecurityGroup"}
     THEN [id |-> "", err |-> Errorf("unhandled dependency type for kind " \o kind)]
     ELSE IF status.externalID = ""
     THEN [id |-> "", err |-> Errorf(kind \o " dependency '" \o NameOf(obj)
                                     \o "' is not ready: external ID is not yet set")]
     ELSE [id |-> status.externalID, err |-> Nil]

\* checkReadinessAndGetID: only a Network, a Subnet or a SecurityGroup object
\* is handled; it must have an external ID and a true Ready condition.
checkReadinessAndGetID(rc, obj, kind) ==
  LET status == rc.objs[obj].status
  IN IF KindOf(obj) \notin {"Network", "Subnet", "SecurityGroup"}
     THEN [id |-> "", err |-> Errorf("unhandled dependency type for kind " \o kind)]
     ELSE IF status.externalID = ""
     THEN [id |-> "", err |-> Errorf(kind \o " dependency '" \o NameOf(obj)
                                     \o "' is not ready: external ID is not yet set")]
     ELSE IF ~IsStatusConditionTrue(status.conditions, condReady)
     THEN [id |-> "", err |-> Errorf(kind \o " dependency '" \o NameOf(obj)
                                     \o "' is not ready: 'Ready' condition is not true")]
     ELSE [id |-> status.externalID, err |-> Nil]

\* The Go type the *Ref branch of Resolve<Kind> fetches: ResolveNATGateway and
\* ResolvePublicIP fetch a SecurityGroup.
RefType(kind) == IF kind \in {"NATGateway", "PublicIP"} THEN "SecurityGroup" ELSE kind

\* A Resolve<Kind> that looks at the explicit ID only when neither a reference
\* nor a selector is given.
ResolveIDLast(rc, kind) ==
  LET dep == rc.deps[kind]
  IN IF dep.Ref = "" /\ dep.Selector = ""
     THEN IF dep.ID # "" THEN [rc |-> rc, id |-> dep.ID, err |-> Nil]
          ELSE [rc |-> rc, id |-> "", err |-> Errorf("no " \o kind \o " specified")]
     ELSE Only({ IF found.err # Nil
                 THEN [rc |-> found.rc, id |-> "",
                       err |-> Wrap("failed to resolve " \o kind, found.err)]
                 ELSE Only({ [rc |-> found.rc, id |-> ready.id, err |-> ready.err]
                             : ready \in {checkReadinessAndGetID(found.rc, found.obj,
                                                                 kind)} })
                 : found \in {IF dep.Ref # ""
                              THEN resolveByRef(rc, dep.Ref, RefType(kind))
                              ELSE resolveBySelector(rc, dep.Selector, kind)} })

\* DependencyResolver.Resolve<Kind>
Resolve(rc, kind) ==
  LET dep == rc.deps[kind]
  IN IF dep.ID # ""
     THEN [rc |-> rc, id |-> dep.ID, err |-> Nil]
     ELSE IF dep.Ref = "" /\ dep.Selector = ""
     THEN [rc |-> rc, id |-> "", err |-> Errorf("no " \o kind \o " specified")]
     ELSE Only({ IF found.err # Nil
                 THEN [rc |-> found.rc, id |-> "",
                       err |-> Wrap("failed to resolve " \o kind, found.err)]
                 ELSE Only({ [rc |-> found.rc, id |-> ready.id, err |-> ready.err]
                             : ready \in {checkReadinessAndGetID(found.rc, found.obj,
                                                                 kind)} })
                 : found \in {IF dep.Ref # ""
                              THEN resolveByRef(rc, dep.Ref, RefType(kind))
                              ELSE resolveBySelector(rc, dep.Selector, kind)} })

\* The dependencies each kind resolves before its create, in order.
DependenciesOf(kind) ==
  CASE kind = "Subnet" -> <<"Network">>
    [] kind = "NATGateway" -> <<"Network", "Subnet">>
    [] kind = "SNATRule" -> <<"NATGateway", "Subnet", "PublicIP">>
    [] kind = "SecurityGroupRule" -> <<"SecurityGroup">>
    [] OTHER -> <<>>

\* Resolve<Kind>Dependencies: one dependency after the other, stopping at the
\* first error; ids collects the resolved IDs.
RECURSIVE ResolveDependencies(_, _, _)
ResolveDependencies(rc, kinds, ids) ==
  IF kinds = <<>>
  THEN [rc |-> rc, ids |-> ids, err |-> Nil]
  ELSE Only({ IF r.err # Nil
              THEN [rc |-> r.rc, ids |-> NoResolved, err |-> r.err]
              ELSE ResolveDependencies(r.rc, Tail(kinds),
                                       [ids EXCEPT ![Head(kinds) \o "ID"] = r.id])
              : r \in {Resolve(rc, Head(kinds))} })

\* ----------------------------------------------------- the deletion guard
\* The reference checks a kind's reconcileDelete passes to
\* BlockOnAnyReference: the kind listed and the resolved field compared.
ReferenceCheck(resource, kind, field) ==
  [resource |-> resource, kind |-> kind, field |-> field]
SecurityGroupRuleReferenceCheck ==
  ReferenceCheck("SecurityGroupRules", "SecurityGroupRule", "SecurityGroupID")
NATGatewayNetworkReferenceCheck == ReferenceCheck("NATGateways", "NATGateway", "NetworkID")
SNATRuleNetworkReferenceCheck == ReferenceCheck("SNATRules", "SNATRule", "NATGatewayID")
SubnetNetworkReferenceCheck == ReferenceCheck("Subnets", "Subnet", "NetworkID")

\* A guard of the Network that forgets its Subnets.
ReferenceChecksWithoutSubnets(kind) ==
  CASE kind = "Network" -> <<NATGatewayNetworkReferenceCheck>>
    [] kind = "Subnet" -> <<NATGatewayNetworkReferenceCheck, SNATRuleNetworkReferenceCheck>>
    [] kind = "PublicIP" -> <<SNATRuleNetworkReferenceCheck>>
    [] kind = "NATGateway" -> <<SNATRuleNetworkReferenceCheck>>
    [] kind = "SecurityGroup" -> <<SecurityGroupRuleReferenceCheck>>
    [] OTHER -> <<>>

ReferenceChecks(kind) ==
  CASE kind = "Network" -> <<SubnetNetworkReferenceCheck, NATGatewayNetworkReferenceCheck>>
    [] kind = "Subnet" -> <<NATGatewayNetworkReferenceCheck, SNATRuleNetworkReferenceCheck>>
    [] kind = "PublicIP" -> <<SNATRuleNetworkReferenceCheck>>
    [] kind = "NATGateway" -> <<SNATRuleNetworkReferenceCheck>>
    [] kind = "SecurityGroup" -> <<SecurityGroupRuleReferenceCheck>>
    [] OTHER -> <<>>

\* A Check that reports no referencing object when its listing fails.
CheckSwallowsError(rc, chk, externalID) ==
  LET r0 == Reach(rc, "referenceList")
  IN IF Fails(rc, "referenceList")
     THEN [rc |-> r0, names |-> <<>>, err |-> Nil]
     ELSE [rc |-> r0,
           names |-> SelectSeq(ListOf(rc, chk.kind),
                       LAMBDA x : rc.objs[x].status.resolvedDependencies[chk.field]
                                  = externalID),
           err |-> Nil]

\* ReferenceCheck.Check: the names of the listed objects whose resolved field
\* equals the external ID.
Check(rc, chk, externalID) ==
  LET r0 == Reach(rc, "referenceList")
  IN IF Fails(rc, "referenceList")
     THEN [rc |-> r0, names |-> <<>>, err |-> Wrap("list " \o chk.resource, ErrAPI)]
     ELSE [rc |-> r0,
           names |-> SelectSeq(ListOf(rc, chk.kind),
                       LAMBDA x : rc.objs[x].status.resolvedDependencies[chk.field]
                                  = externalID),
           err |-> Nil]

RECURSIVE Join(_)
Join(names) ==
  IF names = <<>> THEN ""
  ELSE IF Len(names) = 1 THEN names[1]
  ELSE names[1] \o " " \o Join(Tail(names))

\* Reconciler.BlockOnAnyReference
RECURSIVE BlockOnAnyReference(_, _, _, _)
BlockOnAnyReference(rc, externalID, checks, allRefs) ==
  IF checks = <<>>
  THEN IF Len(allRefs) > 0
       THEN [blocked |-> TRUE,
             rc |-> Return(WithConditions(rc, SetDeletionBlocked(Conditions(rc),
                             rc.generation,
                             WithMessage("Still referenced by [" \o Join(allRefs) \o "]"))),
                           RequeueAfter(requeueDelay), Nil)]
       ELSE [blocked |-> FALSE, rc |-> Return(rc, NoRequeue, Nil)]
  ELSE Only({ IF c.err # Nil
              THEN [blocked |-> TRUE,
                    rc |-> Return(WithConditions(c.rc,
                                    SetReconciliationFailed(Conditions(c.rc), rc.generation,
                                      WithMessage("Failed reference check ("
                                                  \o Head(checks).resource
                                                  \o "): " \o c.err.text))),
                                  RequeueAfter(requeueDelay), c.err)]
              ELSE BlockOnAnyReference(c.rc, externalID, Tail(checks), allRefs \o c.names)
              : c \in {Check(rc, Head(checks), externalID)} })

\* ------------------------------------------------------------------ Delete
\* The deletion callback each reconcileDelete hands to Delete. The Subnet's
\* returns nil without a provider call when no NetworkID was resolved.
DeleteCallback(rc) ==
  IF rc.kind = "Subnet" /\ rc.object.status.resolvedDependencies.NetworkID = ""
  THEN [rc |-> rc, err |-> Nil]
  ELSE ProviderDelete(rc, rc.object.status.externalID)

\* The last statement of Delete: return ctrl.Result{}, rc.RemoveFinalizer(ctx).
ReturnRemoveFinalizer(rc) ==
  Only({ Return(rm.rc, NoRequeue, rm.err)
         : rm \in {Only({ RemoveFinalizer(last) : last \in {rc} })} })

\* Reconciler.Delete
Delete(rc, externalID) ==
  IF ~rc.object.finalizer
  THEN Return(rc, NoRequeue, Nil)
  ELSE Only({
    IF g.err # Nil /\ IsNotFound(g.err)
    THEN ReturnRemoveFinalizer(
           WithConditions(g.rc, SetOrphaned(Conditions(g.rc), rc.generation,
             WithMessage("Resource was orphaned because ProviderConfig was not found"))))
    ELSE IF g.err # Nil
    THEN Return(WithConditions(g.rc,
                  SetNotReady(
                    SetNotSynced(Conditions(g.rc), rc.generation,
                                 WithReasonMessage("DeletionFailed",
                                                   "Cannot access provider: " \o g.err.text)),
                    rc.generation,
                    WithReasonMessage("DeletionFailed", "Deletion blocked by provider error"))),
                RequeueAfter(requeueDelay), Nil)
    ELSE IF ~rc.orphanOnDelete /\ externalID # ""
    THEN Only({
           IF fn.err # Nil
           THEN Return(WithConditions(fn.rc,
                         SetNotReady(
                           SetNotSynced(Conditions(fn.rc), rc.generation,
                                        WithReasonMessage("DeletionFailed", fn.err.text)),
                           rc.generation,
                           WithReasonMessage("DeletionFailed",
                                             "External resource deletion failed"))),
                       RequeueAfter(requeueDelay), fn.err)
           ELSE ReturnRemoveFinalizer(
                  WithConditions(fn.rc, SetDeleted(Conditions(fn.rc), rc.generation)))
           : fn \in {DeleteCallback(g.rc)} })
    ELSE IF rc.orphanOnDelete
    THEN ReturnRemoveFinalizer(
           WithConditions(g.rc, SetOrphaned(Conditions(g.rc), rc.generation, NoOpts)))
    ELSE ReturnRemoveFinalizer(g.rc)
    : g \in {Only({ GetOrCreate(UpdateStatus(terminating, "statusPatchMid").rc)
                    : terminating \in {WithConditions(rc, SetTerminating(Conditions(rc),
                                                                         rc.generation))} })} })

\* <Kind>Reconciler.reconcileDelete: no guard without an external ID, else the
\* kind's reference checks, then Delete.
reconcileDelete(rc) ==
  IF rc.object.status.externalID = ""
  THEN Delete([rc EXCEPT !.path = "DELETE"], "")
  ELSE Only({ IF b.blocked THEN b.rc ELSE Delete(b.rc, rc.object.status.externalID)
              : b \in {BlockOnAnyReference([rc EXCEPT !.path = "DELETE"],
                                           rc.object.status.externalID,
                                           ReferenceChecks(rc.kind), <<>>)} })

\* ------------------------------------------------------- create and update
\* The result of a successful reconcileCreate: Network, NATGateway and
\* SNATRule ask for a poll after 5 s, the other kinds for nothing.
CreatedResult(kind) ==
  IF kind \in {"Network", "NATGateway", "SNATRule"}
  THEN RequeueAfter(postCreateRequeueDelay) ELSE NoRequeue

\* A create that records the external ID and leaves the baseline nil.
createExternalWithoutBaseline(rc) ==
  Only({ IF c.err # Nil
         THEN Return(WithConditions(c.rc,
                       SetReconciliationFailed(Conditions(c.rc), rc.generation,
                         WithReasonMessage("ProvisioningFailed",
                                           "Failed to create resource: " \o c.err.text))),
                     RequeueAfter(requeueDelay), Nil)
         ELSE Return([c.rc EXCEPT !.object.status.externalID = c.id],
                     CreatedResult(rc.kind), Nil)
         : c \in {Only({ ProviderCreate(creating)
                         : creating \in {WithConditions(rc, SetCreating(Conditions(rc),
                                                                        rc.generation))} })} })

\* The part of reconcileCreate after the dependencies are resolved: the
\* Creating conditions, the provider's create, the external ID.
createExternal(rc) ==
  Only({ IF c.err # Nil
         THEN Return(WithConditions(c.rc,
                       SetReconciliationFailed(Conditions(c.rc), rc.generation,
                         WithReasonMessage("ProvisioningFailed",
                                           "Failed to create resource: " \o c.err.text))),
                     RequeueAfter(requeueDelay), Nil)
         ELSE Return([c.rc EXCEPT !.object.status.externalID = c.id,
                                  !.object.status.lastAppliedSpec = <<rc.spec>>],
                     CreatedResult(rc.kind), Nil)
         : c \in {Only({ ProviderCreate(creating)
                         : creating \in {WithConditions(rc, SetCreating(Conditions(rc),
                                                                        rc.generation))} })} })

\* A reconcileCreate that resolves the dependencies and does not record what
\* it resolved in the status.
reconcileCreateForgetsResolved(rc) ==
  IF DependenciesOf(rc.kind) = <<>>
  THEN createExternal(rc)
  ELSE Only({
    IF d.err # Nil
    THEN Return(WithConditions(d.rc,
                  SetNotReady(
                    SetDependenciesNotReady(Conditions(d.rc), d.err.text, rc.generation),
                    rc.generation,
                    WithReasonMessage("DependenciesNotResolved",
                                      "Waiting for dependencies: " \o d.err.text))),
                RequeueAfter(dependencyRequeueDelay), Nil)
    ELSE createExternal(WithConditions(d.rc, SetDependenciesReady(Conditions(d.rc),
                                                                 rc.generation)))
    : d \in {ResolveDependencies(rc, DependenciesOf(rc.kind),
                                 rc.object.status.resolvedDependencies)} })

\* A reconcileCreate that creates without resolving the dependencies.
reconcileCreateUnresolved(rc) == createExternal(rc)

\* <Kind>Reconciler.reconcileCreate
reconcileCreate(rc) ==
  IF DependenciesOf(rc.kind) = <<>>
  THEN createExternal(rc)
  ELSE Only({
    IF d.err # Nil
    THEN Return(WithConditions(d.rc,
                  SetNotReady(
                    SetDependenciesNotReady(Conditions(d.rc), d.err.text, rc.generation),
                    rc.generation,
                    WithReasonMessage("DependenciesNotResolved",
                                      "Waiting for dependencies: " \o d.err.text))),
                RequeueAfter(dependencyRequeueDelay), Nil)
    ELSE Only({ createExternal(resolved)
                : resolved \in {[WithConditions(d.rc, SetDependenciesReady(Conditions(d.rc),
                                                                          rc.generation))
                                   EXCEPT !.object.status.resolvedDependencies = d.ids]} })
    : d \in {ResolveDependencies(rc, DependenciesOf(rc.kind),
                                 rc.object.status.resolvedDependencies)} })

\* A detectDrift that reports drift whatever the baseline says.
detectDriftAlways(kind, spec, lastAppliedSpec) ==
  kind \in {"Network", "Subnet", "NATGateway"}

\* <Kind>Reconciler.detectDrift: Network, Subnet and NATGateway compare the
\* spec with the last applied spec; the other kinds report no drift.
detectDrift(kind, spec, lastAppliedSpec) ==
  /\ kind \in {"Network", "Subnet", "NATGateway"}
  /\ spec.description # lastAppliedSpec.description

\* A handleDrift that moves the baseline before it knows the update's outcome.
handleDriftBaselineFirst(rc) ==
  IF rc.kind \notin {"Network", "Subnet", "NATGateway"}
  THEN Return(rc, RequeueNow, Nil)
  ELSE Only({
    IF u.err # Nil
    THEN Return(WithConditions(u.rc,
                  SetReconciliationFailed(Conditions(u.rc), rc.generation,
                    WithReasonMessage("UpdateFailed",
                                      "Failed to update resource: " \o u.err.text))),
                RequeueAfter(requeueDelay), Nil)
    ELSE Return(u.rc, RequeueNow, Nil)
    : u \in {Only({ ProviderUpdate(updating, rc.object.status.externalID,
                                   rc.spec.description)
                    : updating \in {[WithConditions(rc, SetUpdating(Conditions(rc),
                                                                    rc.generation))
                                      EXCEPT !.object.status.lastAppliedSpec =
                                               <<rc.spec>>]} })} })

\* <Kind>Reconciler.handleDrift
handleDrift(rc) ==
  IF rc.kind \notin {"Network", "Subnet", "NATGateway"}
  THEN Return(rc, RequeueNow, Nil)
  ELSE Only({
    IF u.err # Nil
    THEN Return(WithConditions(u.rc,
                  SetReconciliationFailed(Conditions(u.rc), rc.generation,
                    WithReasonMessage("UpdateFailed",
                                      "Failed to update resource: " \o u.err.text))),
                RequeueAfter(requeueDelay), Nil)
    ELSE Return([u.rc EXCEPT !.object.status.lastAppliedSpec = <<rc.spec>>],
                RequeueNow, Nil)
    : u \in {Only({ ProviderUpdate(updating, rc.object.status.externalID,
                                   rc.spec.description)
                    : updating \in {WithConditions(rc, SetUpdating(Conditions(rc),
                                                                   rc.generation))} })} })

\* Info.Message()
Message(kind, status) ==
  LET s == State(kind, status)
  IN CASE s = "Ready" -> kind \o " is active"
       [] s = "Failed" -> kind \o " is in a failed state: " \o status
       [] s = "Provisioning" -> kind \o " busy with status: " \o status
       [] OTHER -> kind \o " is in an unhandled state: " \o status

\* <Kind>Reconciler.checkReadiness
checkReadiness(rc, info) ==
  LET s == State(rc.kind, info.Status)
      msg == WithMessage(Message(rc.kind, info.Status))
      isNewlyProvisioned == ~rc.object.status.lastSyncTime
  IN CASE s = "Ready" ->
            Return([WithConditions(rc,
                      IF isNewlyProvisioned
                      THEN SetProvisioned(Conditions(rc), rc.generation)
                      ELSE SetSyncedAndReady(Conditions(rc), rc.generation))
                     EXCEPT !.object.status.lastSyncTime = TRUE],
                   NoRequeue, Nil)
       [] s = "Failed" ->
            Return(WithConditions(rc, SetReconciliationFailed(Conditions(rc), rc.generation,
                     WithReasonMessage("Failed", Message(rc.kind, info.Status)))),
                   RequeueAfter(requeueDelay), Nil)
       [] s = "Provisioning" ->
            Return(WithConditions(rc, SetProvisioning(Conditions(rc), rc.generation, msg)),
                   RequeueAfter(requeueDelay), Nil)
       [] OTHER ->
            Return(WithConditions(rc, SetReconciliationFailed(Conditions(rc), rc.generation,
                     WithReasonMessage("Unknown", Message(rc.kind, info.Status)))),
                   RequeueAfter(requeueDelay), Nil)

\* A reconcileUpdate that empties the external ID of a resource that is gone
\* and leaves the conditions as they are.
reconcileUpdateKeepsReady(rc) ==
  IF rc.object.status.lastAppliedSpec = <<>>
  THEN Return([rc EXCEPT !.object.status.lastAppliedSpec = <<rc.spec>>], RequeueNow, Nil)
  ELSE Only({
    IF g.err # Nil
    THEN Return(WithConditions(g.rc,
                  SetReconciliationFailed(Conditions(g.rc), rc.generation,
                    WithReasonMessage("ProviderError",
                                      "Failed to check existing resource: " \o g.err.text))),
                RequeueAfter(requeueDelay), Nil)
    ELSE IF g.info = <<>>
    THEN Return([g.rc EXCEPT !.object.status.externalID = "",
                             !.object.status.lastAppliedSpec = <<>>],
                RequeueNow, Nil)
    ELSE IF detectDrift(rc.kind, rc.spec, rc.object.status.lastAppliedSpec[1])
    THEN handleDrift(g.rc)
    ELSE checkReadiness(g.rc, g.info[1])
    : g \in {ProviderGet(rc, rc.object.status.externalID)} })

\* <Kind>Reconciler.reconcileUpdate
reconcileUpdate(rc) ==
  IF rc.object.status.lastAppliedSpec = <<>>
  THEN Return([rc EXCEPT !.object.status.lastAppliedSpec = <<rc.spec>>], RequeueNow, Nil)
  ELSE Only({
    IF g.err # Nil
    THEN Return(WithConditions(g.rc,
                  SetReconciliationFailed(Conditions(g.rc), rc.generation,
                    WithReasonMessage("ProviderError",
                                      "Failed to check existing resource: " \o g.err.text))),
                RequeueAfter(requeueDelay), Nil)
    ELSE IF g.info = <<>>
    THEN Return([WithConditions(g.rc,
                   SetNotReady(
                     SetNotSynced(Conditions(g.rc), rc.generation,
                       WithReasonMessage("NotFound",
                         "External resource with ID " \o rc.object.status.externalID
                         \o " was not found and will be recreated")),
                     rc.generation,
                     WithReasonMessage("NotFound", "Resource needs to be recreated")))
                  EXCEPT !.object.status.externalID = "",
                         !.object.status.lastAppliedSpec = <<>>],
                RequeueNow, Nil)
    ELSE IF detectDrift(rc.kind, rc.spec, rc.object.status.lastAppliedSpec[1])
    THEN handleDrift(g.rc)
    ELSE checkReadiness(g.rc, g.info[1])
    : g \in {ProviderGet(rc, rc.object.status.externalID)} })

\* <Kind>Reconciler.reconcile: the create path without an external ID, the
\* update path with one.
reconcile(rc) ==
  IF rc.object.status.externalID = ""
  THEN reconcileCreate([rc EXCEPT !.path = "CREATE"])
  ELSE reconcileUpdate([rc EXCEPT !.path = "UPDATE"])

\* The part of <Kind>Reconciler.Reconcile after the finalizer is in place:
\* the ProviderConfig check, the provider client, the reconcile.
reconcileWithProvider(rc) ==
  Only({
    IF c.shouldRequeue THEN c.rc
    ELSE Only({
      IF g.err # Nil
      THEN Return(WithConditions(g.rc,
                    SetReconciliationFailed(Conditions(g.rc), rc.generation,
                      WithReasonMessage("ProviderConfigError", g.err.text))),
                  RequeueAfter(requeueDelay), Nil)
      ELSE reconcile(g.rc)
      : g \in {GetOrCreate(c.rc)} })
    : c \in {CheckProviderConfig(rc)} })

\* The body of <Kind>Reconciler.Reconcile between the construction of the
\* Reconciler and the deferred status patch.
ReconcileBody(rc) ==
  IF rc.deleting
  THEN reconcileDelete(rc)
  ELSE Only({ IF f.added THEN f.rc ELSE reconcileWithProvider(f.rc)
              : f \in {AddFinalizer(rc)} })

\* What one invocation can be made to suffer: no failure, the failure of one
\* call, or a readiness wait that ends on a status that is not ready.
FailurePoints ==
  {"get", "finalizerUpdate", "finalizerRemove", "statusPatch", "statusPatchMid",
   "providerConfigGet", "providerInit", "dependencyGet", "referenceList",
   "apiCreate", "apiGet", "apiUpdate", "apiDelete"}
Inputs(kind) ==
  {[fail |-> f, status |-> ""] : f \in FailurePoints \cup {"none"}}
  \cup {[fail |-> "wait", status |-> s] :
          s \in {s \in Statuses(kind) : HasWait(kind) /\ waitFor(kind, s) # Nil}}

\* The Reconciler built after the object was read.
NewReconciler(o, in) ==
  [name |-> o, kind |-> KindOf(o), in |-> in, impl |-> impl,
   generation |-> objs[o].generation, spec |-> objs[o].spec,
   deps |-> SpecDependencies(scenario, o), orphanOnDelete |-> objs[o].orphanOnDelete,
   deleting |-> objs[o].deleting,
   object |-> [finalizer |-> objs[o].finalizer, status |-> objs[o].status],
   originalObject |-> [finalizer |-> objs[o].finalizer, status |-> objs[o].status],
   objs |-> objs, cloud |-> cloud, cache |-> cache, nextClient |-> nextClient,
   path |-> "", calls |-> <<>>, got |-> <<>>, reached |-> {},
   result |-> NoRequeue, err |-> Nil, returned |-> EmptyStatus]

\* <Kind>Reconciler.Reconcile: read the object, run the body, and patch the
\* status on the way out (the patch's error is dropped).
Run(o, in) ==
  IF in.fail = "get"
  THEN Return(Reach(NewReconciler(o, in), "get"), NoRequeue, ErrAPI)
  ELSE Only({ Return(UpdateStatus(body, "statusPatch").rc, body.result, body.err)
              : body \in {Only({ [b EXCEPT !.returned = b.object.status]
                                 : b \in {Only({ ReconcileBody(rc)
                                                 : rc \in {Reach(NewReconciler(o, in),
                                                                 "get")} })} })} })

\* The inputs whose failure point the invocation reaches: a call can only fail
\* where the run without failures makes it.
NoFailure == [fail |-> "none", status |-> ""]
Reachable(o) ==
  UNION { {in \in Inputs(KindOf(o)) : in.fail = "none" \/ in.fail \in reached}
          : reached \in {Run(o, NoFailure).reached} }

\* out after a step that is no reconcile; after a reconcile it holds the
\* object, whether the step before was a reconcile of the same object (again),
\* the path taken, the provider calls, what Get<Kind> returned, the result and
\* error returned, the failure injected and the status in memory at the exit.
NoReconcile ==
  [object |-> "", again |-> FALSE, path |-> "", calls |-> <<>>, got |-> <<>>,
   result |-> NoRequeue, err |-> Nil, fail |-> "none", status |-> EmptyStatus]

\* A work queue that puts a request back only when Reconcile returned an error.
RequeuesOnErrorOnly(result, err) == err # Nil

\* What controller-runtime does with the values Reconcile returns: an error,
\* Requeue or a RequeueAfter puts the request back on the work queue.
Requeues(result, err) == err # Nil \/ result.Requeue \/ result.RequeueAfter > 0

Reconcile(o) ==
  /\ objs[o].exists
  /\ \E in \in (IF faults > 0 THEN Reachable(o) ELSE {NoFailure}) :
       \E r \in {Run(o, in)} :
          /\ Len(r.cloud) <= MaxResources
          /\ r.nextClient <= MaxClients
          /\ objs' = r.objs
          /\ cloud' = r.cloud
          /\ cache' = r.cache
          /\ nextClient' = r.nextClient
          /\ faults' = IF in.fail = "none" THEN faults ELSE faults - 1
          /\ out' = [object |-> o, again |-> out.object = o, path |-> r.path,
                     calls |-> r.calls, got |-> r.got, result |-> r.result,
                     err |-> r.err, fail |-> in.fail, status |-> r.returned]
          /\ requeued' = IF Requeues(r.result, r.err)
                         THEN requeued \cup {o} ELSE requeued \ {o}
  /\ UNCHANGED <<scenario, pc, secret, impl, procs, evicted, do, conds, resolution>>

\* Another writer of the status subresource (a second controller, or kubectl):
\* it adds a condition entry of a type of its own, or sets a status field.
Writes == {"condition", "lastSyncTime"}
condForeign == "Foreign"
OtherWriter(status, w) ==
  IF w = "condition"
  THEN [status EXCEPT !.conditions =
          Apply(@, NewCondition(condForeign, "True", "Foreign", "", 0))]
  ELSE [status EXCEPT !.lastSyncTime = TRUE]

\* <Kind>Reconciler.Reconcile when the other writer's request is served after
\* the reconcile's Get and before anything else the reconcile sends: the
\* object and its DeepCopy hold what was read, the API server what was written.
RunAfterWrite(o, in, w) ==
  Only({ Return(UpdateStatus(body, "statusPatch").rc, body.result, body.err)
         : body \in {Only({ [b EXCEPT !.returned = b.object.status]
                            : b \in {Only({ ReconcileBody(rc)
                                            : rc \in {[Reach(NewReconciler(o, in), "get")
                                                        EXCEPT !.objs[o].status =
                                                                 OtherWriter(@, w)]} })} })} })

ReconcileAfterWrite(o) ==
  /\ objs[o].exists
  /\ \E w \in Writes :
       \E r \in {RunAfterWrite(o, NoFailure, w)} :
          /\ Len(r.cloud) <= MaxResources
          /\ r.nextClient <= MaxClients
          /\ objs' = r.objs
          /\ cloud' = r.cloud
          /\ cache' = r.cache
          /\ nextClient' = r.nextClient
          /\ out' = [object |-> o, again |-> out.object = o, path |-> r.path,
                     calls |-> r.calls, got |-> r.got, result |-> r.result,
                     err |-> r.err, fail |-> "none", status |-> r.returned,
                     write |-> w]
          /\ requeued' = IF Requeues(r.result, r.err)
                         THEN requeued \cup {o} ELSE requeued \ {o}
  /\ UNCHANGED <<scenario, pc, secret, impl, faults, procs, evicted, do, conds,
                 resolution>>

\* ------------------------------------------------- the user and the world
cacheVars == <<procs, evicted, requeued, do, conds, resolution>>

\* kubectl delete: the deletion timestamp is set; without a finalizer the
\* object is removed at once.
UserDelete(o) ==
  /\ objs[o].exists /\ ~objs[o].deleting
  /\ objs' = [objs EXCEPT ![o] = IF @.finalizer THEN [@ EXCEPT !.deleting = TRUE] ELSE Gone]
  /\ UNCHANGED <<scenario, cloud, pc, secret, cache, nextClient, impl, faults>>
  /\ out' = NoReconcile
  /\ UNCHANGED cacheVars

\* The user edits the spec: a new generation with a new description.
UserEdit(o) ==
  /\ objs[o].exists /\ ~objs[o].deleting
  /\ faults > 0
  /\ faults' = faults - 1
  /\ objs' = [objs EXCEPT ![o].generation = @ + 1, ![o].spec = SpecAt(objs[o].generation + 1)]
  /\ UNCHANGED <<scenario, cloud, pc, secret, cache, nextClient, impl>>
  /\ out' = NoReconcile
  /\ UNCHANGED cacheVars

\* Somebody deletes an external resource behind the operator's back.
OutOfBandDelete(i) ==
  /\ i \in 1..Len(cloud) /\ cloud[i].exists
  /\ faults > 0
  /\ faults' = faults - 1
  /\ cloud' = [cloud EXCEPT ![i].exists = FALSE]
  /\ UNCHANGED <<scenario, objs, pc, secret, cache, nextClient, impl>>
  /\ out' = NoReconcile
  /\ UNCHANGED cacheVars

\* The cloud moves a resource to another status.
CloudStatusChange(i) ==
  /\ i \in 1..Len(cloud) /\ cloud[i].exists
  /\ faults > 0
  /\ faults' = faults - 1
  /\ \E s \in Statuses(cloud[i].kind) \ {cloud[i].status} :
       cloud' = [cloud EXCEPT ![i].status = s]
  /\ UNCHANGED <<scenario, objs, pc, secret, cache, nextClient, impl>>
  /\ out' = NoReconcile
  /\ UNCHANGED cacheVars

\* The ProviderConfig is deleted, created again, or its Ready condition changes.
ProviderConfigChange ==
  /\ faults > 0
  /\ faults' = faults - 1
  /\ \E e \in BOOLEAN, r \in BOOLEAN :
       /\ e \/ ~r
       /\ <<e, r>> # <<pc.exists, pc.ready>>
       /\ pc' = [pc EXCEPT !.exists = e, !.ready = r]
  /\ UNCHANGED <<scenario, objs, cloud, secret, cache, nextClient, impl>>
  /\ out' = NoReconcile
  /\ UNCHANGED cacheVars

\* The credentials secret is deleted, or created again under a new
\* resourceVersion.
SecretChange ==
  /\ faults > 0
  /\ faults' = faults - 1
  /\ IF secret.exists
     THEN secret' = [secret EXCEPT !.exists = FALSE]
     ELSE /\ secret.resourceVersion < MaxVersion
          /\ secret' = [exists |-> TRUE, resourceVersion |-> secret.resourceVersion + 1]
  /\ UNCHANGED <<scenario, objs, cloud, pc, cache, nextClient, impl>>
  /\ out' = NoReconcile
  /\ UNCHANGED cacheVars

\* An empty condition set on which no setter was called: order lists the
\* types in the order in which they were first set, latest gives the
\* generation of the last call that set each type, calls counts the calls.
ConditionTypes == {condReady, condSynced, condDependenciesReady}
NoConditions ==
  [conditions |-> <<>>, order |-> <<>>, latest |-> [t \in ConditionTypes |-> 0],
   calls |-> 0]

\* No retry.Do call is running.
NoCall ==
  [at |-> "none", MaxAttempts |-> 0, Delay |-> 0, cancelled |-> FALSE, n |-> 0,
   calls |-> 0, last |-> [retry |-> FALSE, err |-> Nil], ret |-> Nil]

\* No Resolve<Kind> call is made.
NoResolution ==
  [at |-> "none", kind |-> "", dep |-> NoDependency, store |-> <<>>, fail |-> "none",
   id |-> "", err |-> Nil, reads |-> {}]

\* ------------------------------------------------------------ specification
\* After construction: the objects of one scenario exist, nothing is created,
\* the ProviderConfig is ready and the cache is empty.
InitWith(implementation, scenarios, disturbances) ==
  /\ scenario \in scenarios
  /\ objs = [o \in Objects |->
               IF o \in scenario.members
               THEN NewObject(TRUE, o \in scenario.orphans) ELSE Gone]
  /\ cloud = <<>>
  /\ pc = [exists |-> TRUE, ready |-> TRUE, generation |-> 1]
  /\ secret = [exists |-> TRUE, resourceVersion |-> 1]
  /\ cache = <<>>
  /\ nextClient = 0
  /\ impl = implementation
  /\ faults = disturbances
  /\ out = NoReconcile
  /\ procs = <<>>
  /\ evicted = {}
  /\ requeued = scenario.members
  /\ do = NoCall
  /\ conds = NoConditions
  /\ resolution = NoResolution

Init == InitWith("otc", Scenarios, MaxFaults)

Next ==
  \/ \E o \in Objects : Reconcile(o)
  \/ \E o \in Objects : UserDelete(o)
  \/ \E o \in Objects : UserEdit(o)
  \/ \E i \in 1..MaxResources : OutOfBandDelete(i)
  \/ \E i \in 1..MaxResources : CloudStatusChange(i)
  \/ ProviderConfigChange
  \/ SecretChange

Spec == Init /\ [][Next]_vars

\* The reconcilers over a provider that keeps the interface's contract for
\* Get<Kind>, on single objects, with room for one more disturbance.
InitContract == InitWith("contract", SingleScenarios, MaxFaults + 1)
SpecContract == InitContract /\ [][Next]_vars

\* The reconcilers with the provider as it is and, on single objects, with a
\* provider whose Get<Kind> keeps the interface's contract, under which the
\* reconcilers' branch for a resource that is gone is taken.
ReadySpec ==
  /\ \/ InitWith("otc", Scenarios, MaxFaults)
     \/ InitWith("contract", SingleScenarios, MaxFaults + 1)
  /\ [][Next]_vars

\* The reconcilers on single objects with room for two disturbances, so that
\* a call can fail in the reconcile that follows an edit of the spec.
DriftSpec == InitWith("otc", SingleScenarios, MaxFaults + 1) /\ [][Next]_vars

\* The reconcilers on single objects under fair scheduling: a reconcile that
\* would change the state is eventually run.
InitLive == InitWith("otc", SingleScenarios, MaxFaults)
LiveSpec == InitLive /\ [][Next]_vars /\ WF_vars(\E o \in Objects : Reconcile(o))

\* The reconcilers when nothing fails and nothing is disturbed, and the only
\* reconciles that run are those of newly submitted objects and those the
\* reconcilers ask for through the values they return. The work queue hands
\* every request to a worker, so a requested reconcile is eventually run.
RequestedReconcile(o) == o \in requeued /\ Reconcile(o)
RequeueSpec ==
  /\ InitWith("otc", Scenarios \cup SingleScenarios, 0)
  /\ [][\E o \in Objects : RequestedReconcile(o)]_vars
  /\ \A o \in Objects : WF_vars(RequestedReconcile(o))

\* The reconcilers on single objects when nothing fails, with a second writer
\* of the status whose writes land between a reconcile's read and its patch.
WriterSpec ==
  /\ InitWith("otc", SingleScenarios, 0)
  /\ [][\E o \in Objects : Reconcile(o) \/ ReconcileAfterWrite(o) \/ UserDelete(o)]_vars

\* kubectl delete of o: the deletion timestamp is set (an object without
\* finalizer goes at once), and the watch event hands o to its reconciler.
RequestDelete(o) ==
  /\ objs[o].exists /\ ~objs[o].deleting
  /\ objs' = [objs EXCEPT ![o] = IF @.finalizer THEN [@ EXCEPT !.deleting = TRUE] ELSE Gone]
  /\ requeued' = requeued \cup {o}
  /\ out' = NoReconcile
  /\ UNCHANGED <<scenario, cloud, pc, secret, cache, nextClient, impl, faults, procs,
                 evicted, do, conds, resolution>>

\* The reconcilers when the user may delete any object at any time, one call
\* may fail, and the reconciles that run are those of submitted or deleted
\* objects and those the reconcilers ask for; the work queue hands every
\* request to a worker.
DeletionSpec ==
  /\ InitWith("otc", Scenarios \cup SingleScenarios, MaxFaults)
  /\ [][\E o \in Objects : RequestedReconcile(o) \/ RequestDelete(o)]_vars
  /\ \A o \in Objects : WF_vars(RequestedReconcile(o))

\* ------------------------------------------- the provider cache, stepwise
\* ProviderCache.GetOrCreate as the workers of the controllers run it: every
\* read of the API server and every critical section of the mutex is a step
\* of its own, so that calls interleave with each other, with Invalidate and
\* with updates of the ProviderConfig and of its secret.
Workers == {"w1", "w2"}

\* A worker outside a call. generation, secretVersion and provider are the
\* locals of a call, ret and failed what it returned (cached: from the cache),
\* since the clients Invalidate had removed when the call began.
Idle ==
  [at |-> "idle", generation |-> 0, secretVersion |-> 0, provider |-> 0,
   ret |-> 0, cached |-> FALSE, failed |-> FALSE, since |-> {}]

\* The return of a call: its locals go out of scope.
Returned(p, client, fromCache) ==
  [Idle EXCEPT !.at = "done", !.ret = client, !.cached = fromCache,
               !.failed = (client = 0), !.since = p.since]

reconcileVars == <<scenario, objs, cloud, impl, faults, out, requeued, do, conds, resolution>>

\* p.client.Get of the ProviderConfig (provider.go:57).
GetConfig(w) ==
  /\ procs[w].at \in {"idle", "done"}
  /\ procs' = [procs EXCEPT ![w] =
                 [Idle EXCEPT !.at = IF pc.exists THEN "secret" ELSE "evict",
                              !.generation = IF pc.exists THEN pc.generation ELSE 0,
                              !.since = evicted]]
  /\ UNCHANGED <<reconcileVars, pc, secret, cache, nextClient, evicted>>

\* The ProviderConfig was not found: the entry is deleted under the lock and
\* the error returned (provider.go:67-72).
EvictMissing(w) ==
  /\ procs[w].at = "evict"
  /\ cache' = <<>>
  /\ procs' = [procs EXCEPT ![w] = Returned(@, 0, FALSE)]
  /\ UNCHANGED <<reconcileVars, pc, secret, nextClient, evicted>>

\* p.client.Get of the secret, its error ignored (provider.go:77-87).
GetSecret(w) ==
  /\ procs[w].at = "secret"
  /\ procs' = [procs EXCEPT ![w].at = "check",
                            ![w].secretVersion = currentSecretVersion(secret)]
  /\ UNCHANGED <<reconcileVars, pc, secret, cache, nextClient, evicted>>

\* The read of the entry under the read lock and the validity test
\* (provider.go:92-105): a valid entry's client is returned.
CheckCache(w) ==
  /\ procs[w].at = "check"
  /\ procs' = [procs EXCEPT ![w] =
                 IF entryValid(cache, @.generation, @.secretVersion)
                 THEN Returned(@, cache[1].provider, TRUE)
                 ELSE [@ EXCEPT !.at = "create"]]
  /\ UNCHANGED <<reconcileVars, pc, secret, cache, nextClient, evicted>>

\* A construction whose failure removes the entry from the cache.
CreateClientDropsEntry(w) ==
  /\ procs[w].at = "create"
  /\ nextClient < MaxClients
  /\ \E new \in {NewFromProviderConfig(pc, secret, nextClient + 1)} :
       IF new.err # Nil
       THEN /\ procs' = [procs EXCEPT ![w] = Returned(@, 0, FALSE)]
            /\ cache' = <<>>
            /\ UNCHANGED nextClient
       ELSE /\ procs' = [procs EXCEPT ![w].at = "store", ![w].provider = new.provider]
            /\ nextClient' = new.provider
            /\ UNCHANGED cache
  /\ UNCHANGED <<reconcileVars, pc, secret, evicted>>

\* provider.NewFromProviderConfig (provider.go:112-115), which reads the
\* ProviderConfig and the secret once more.
CreateClient(w) ==
  /\ procs[w].at = "create"
  /\ nextClient < MaxClients
  /\ \E new \in {NewFromProviderConfig(pc, secret, nextClient + 1)} :
       IF new.err # Nil
       THEN /\ procs' = [procs EXCEPT ![w] = Returned(@, 0, FALSE)]
            /\ UNCHANGED nextClient
       ELSE /\ procs' = [procs EXCEPT ![w].at = "store", ![w].provider = new.provider]
            /\ nextClient' = new.provider
  /\ UNCHANGED <<reconcileVars, pc, secret, cache, evicted>>

\* The new entry is stored under the lock, tagged with the generation and the
\* secret version read at the start of the call (provider.go:118-132).
StoreEntry(w) ==
  /\ procs[w].at = "store"
  /\ cache' = <<providerEntry(procs[w].provider, procs[w].generation,
                              procs[w].secretVersion)>>
  /\ procs' = [procs EXCEPT ![w] = Returned(@, @.provider, FALSE)]
  /\ UNCHANGED <<reconcileVars, pc, secret, nextClient, evicted>>

\* An Invalidate that takes the lock and leaves the entry where it is.
InvalidateKeepsEntry ==
  /\ cache # <<>>
  /\ evicted' = evicted \cup {cache[1].provider}
  /\ UNCHANGED <<reconcileVars, pc, secret, cache, nextClient, procs>>

\* ProviderCache.Invalidate: the entry is deleted under the lock. evicted
\* collects the clients it removed.
Invalidate ==
  /\ cache # <<>>
  /\ cache' = <<>>
  /\ evicted' = evicted \cup {cache[1].provider}
  /\ UNCHANGED <<reconcileVars, pc, secret, nextClient, procs>>

\* The ProviderConfig's spec is edited: a new generation.
ConfigUpdated ==
  /\ pc.exists /\ pc.generation < MaxVersion
  /\ pc' = [pc EXCEPT !.generation = @ + 1]
  /\ UNCHANGED <<reconcileVars, secret, cache, nextClient, procs, evicted>>

\* The ProviderConfig is deleted, or created again (a new object starts at
\* generation 1).
ConfigReplaced ==
  /\ pc' = IF pc.exists THEN [pc EXCEPT !.exists = FALSE]
           ELSE [exists |-> TRUE, ready |-> TRUE, generation |-> 1]
  /\ UNCHANGED <<reconcileVars, secret, cache, nextClient, procs, evicted>>

\* The secret is written (a new resourceVersion), deleted, or created again.
SecretUpdated ==
  /\ secret.resourceVersion < MaxVersion
  /\ secret' = [exists |-> TRUE, resourceVersion |-> secret.resourceVersion + 1]
  /\ UNCHANGED <<reconcileVars, pc, cache, nextClient, procs, evicted>>

SecretDeleted ==
  /\ secret.exists
  /\ secret' = [secret EXCEPT !.exists = FALSE]
  /\ UNCHANGED <<reconcileVars, pc, cache, nextClient, procs, evicted>>

InitCache ==
  /\ scenario = Scenario({}, {}, <<>>)
  /\ objs = [o \in Objects |-> Gone]
  /\ cloud = <<>>
  /\ pc = [exists |-> TRUE, ready |-> TRUE, generation |-> 1]
  /\ secret = [exists |-> TRUE, resourceVersion |-> 1]
  /\ cache = <<>>
  /\ nextClient = 0
  /\ impl = "otc"
  /\ faults = 0
  /\ out = NoReconcile
  /\ procs = [w \in Workers |-> Idle]
  /\ evicted = {}
  /\ requeued = {}
  /\ do = NoCall
  /\ conds = NoConditions
  /\ resolution = NoResolution

NextCache ==
  \/ \E w \in Workers : GetConfig(w)
  \/ \E w \in Workers : EvictMissing(w)
  \/ \E w \in Workers : GetSecret(w)
  \/ \E w \in Workers : CheckCache(w)
  \/ \E w \in Workers : CreateClient(w)
  \/ \E w \in Workers : StoreEntry(w)
  \/ Invalidate
  \/ ConfigUpdated
  \/ ConfigReplaced
  \/ SecretUpdated
  \/ SecretDeleted

CacheSpec == InitCache /\ [][NextCache]_vars

\* ------------------------------------------------------------- retry.Do
\* One call of retry.Do(ctx, fn, WithMaxAttempts(MaxAttempts), WithDelay(Delay)),
\* step by step: the check of the context on entry, each invocation of fn with
\* the bookkeeping that follows it, and the select between two attempts. The
\* context can be cancelled at any moment.
FnErrors == {Nil, ErrFailedToCreate, ErrAPI}
Delays == {0, 5}

retryVars == <<scenario, objs, cloud, pc, secret, cache, nextClient, impl, faults, out,
               procs, evicted, requeued, conds, resolution>>

\* A call that returns fn's last error where Do returns the sentinel.
attemptReturnsLastError(d, retry, err) ==
  LET called == [d EXCEPT !.calls = @ + 1, !.last = [retry |-> retry, err |-> err]]
  IN IF ~retry
     THEN [called EXCEPT !.at = "done", !.ret = err]
     ELSE IF d.MaxAttempts # 0 /\ d.n + 1 > d.MaxAttempts
     THEN [called EXCEPT !.n = @ + 1, !.at = "done", !.ret = err]
     ELSE [called EXCEPT !.n = @ + 1, !.at = "select"]

\* One turn of the loop up to the select (retry.go:53-61): fn is invoked; when
\* it asks for no retry the loop ends with its error, otherwise n counts the
\* request and the sentinel is returned once n exceeds MaxAttempts.
attempt(d, retry, err) ==
  LET called == [d EXCEPT !.calls = @ + 1, !.last = [retry |-> retry, err |-> err]]
  IN IF ~retry
     THEN [called EXCEPT !.at = "done", !.ret = err]
     ELSE IF d.MaxAttempts # 0 /\ d.n + 1 > d.MaxAttempts
     THEN [called EXCEPT !.n = @ + 1, !.at = "done", !.ret = ErrMaxRetriesReached]
     ELSE [called EXCEPT !.n = @ + 1, !.at = "select"]

\* if err := ctx.Err(); err != nil { return err }
DoEnter ==
  /\ do.at = "enter"
  /\ do' = IF do.cancelled THEN [do EXCEPT !.at = "done", !.ret = ErrCanceled]
           ELSE [do EXCEPT !.at = "fn"]
  /\ UNCHANGED retryVars

\* fn returns (retry, err). A call without MaxAttempts is followed for as many
\* invocations as a call with the largest MaxAttempts makes.
DoAttempt ==
  /\ do.at = "fn"
  /\ do.calls < MaxAttempts + 2
  /\ \E retry \in BOOLEAN, err \in FnErrors : do' = attempt(do, retry, err)
  /\ UNCHANGED retryVars

\* The select on ctx.Done() and time.After(Delay). A context cancelled before
\* the delay has passed decides it; with a zero delay both channels can be
\* ready, and select then takes either.
DoSelect ==
  /\ do.at = "select"
  /\ \/ /\ do.cancelled
        /\ do' = [do EXCEPT !.at = "done", !.ret = ErrCanceled]
     \/ /\ ~do.cancelled \/ do.Delay = 0
        /\ do' = [do EXCEPT !.at = "fn"]
  /\ UNCHANGED retryVars

\* The context is cancelled while the call is running.
Cancel ==
  /\ do.at \in {"fn", "select"}
  /\ ~do.cancelled
  /\ do' = [do EXCEPT !.cancelled = TRUE]
  /\ UNCHANGED retryVars

InitRetry ==
  /\ scenario = Scenario({}, {}, <<>>)
  /\ objs = [o \in Objects |-> Gone]
  /\ cloud = <<>>
  /\ pc = [exists |-> TRUE, ready |-> TRUE, generation |-> 1]
  /\ secret = [exists |-> TRUE, resourceVersion |-> 1]
  /\ cache = <<>>
  /\ nextClient = 0
  /\ impl = "otc"
  /\ faults = 0
  /\ out = NoReconcile
  /\ procs = <<>>
  /\ evicted = {}
  /\ requeued = {}
  /\ conds = NoConditions
  /\ resolution = NoResolution
  /\ \E max \in 0..MaxAttempts, delay \in Delays, cancelled \in BOOLEAN :
       do = [NoCall EXCEPT !.at = "enter", !.MaxAttempts = max, !.Delay = delay,
                           !.cancelled = cancelled]

NextRetry == DoEnter \/ DoAttempt \/ DoSelect \/ Cancel

RetrySpec == InitRetry /\ [][NextRetry]_vars

\* ------------------------------------------------------ condition setters
\* The setters of the condition helpers, called one after the other on one
\* condition set with any generation and any reason and message overrides.
Setters ==
  {"SetSynced", "SetNotSynced", "SetReady", "SetNotReady", "SetReconciliationFailed",
   "SetSyncedAndReady", "SetCreating", "SetProvisioning", "SetProvisioned",
   "SetUpdating", "SetStopped", "SetDependenciesReady", "SetDependenciesNotReady",
   "SetProviderConfigReady", "SetProviderConfigNotReady",
   "SetProviderValidationSuccessful", "SetProviderValidationFailed", "SetTerminating",
   "SetDeletionBlocked", "SetDeleted", "SetOrphaned"}

Overrides ==
  {NoOpts, WithReason("Why"), WithMessage("what happened"),
   WithReasonMessage("Why", "what happened")}

SetProviderValidationSuccessful(conditions, generation) ==
  Apply(conditions,
        NewCondition(condReady, "True", "ValidationSuccessful",
                     "Provider credentials and permissions are valid", generation))

\* The options are appended to WithReason(reasonValidationFailed), so a reason
\* among them replaces it.
SetProviderValidationFailed(conditions, generation, opts) ==
  SetNotReady(conditions, generation,
              [Reason |-> IF opts.Reason = "" THEN "ValidationFailed" ELSE opts.Reason,
               Message |-> opts.Message])

\* The call of the named setter; the setters without options ignore opts, the
\* two with a message take it from opts.
CallSetter(setter, conditions, generation, opts) ==
  CASE setter = "SetSynced" -> SetSynced(conditions, generation, opts)
    [] setter = "SetNotSynced" -> SetNotSynced(conditions, generation, opts)
    [] setter = "SetReady" -> SetReady(conditions, generation, opts)
    [] setter = "SetNotReady" -> SetNotReady(conditions, generation, opts)
    [] setter = "SetReconciliationFailed" ->
         SetReconciliationFailed(conditions, generation, opts)
    [] setter = "SetSyncedAndReady" -> SetSyncedAndReady(conditions, generation)
    [] setter = "SetCreating" -> SetCreating(conditions, generation)
    [] setter = "SetProvisioning" -> SetProvisioning(conditions, generation, opts)
    [] setter = "SetProvisioned" -> SetProvisioned(conditions, generation)
    [] setter = "SetUpdating" -> SetUpdating(conditions, generation)
    [] setter = "SetStopped" -> SetStopped(conditions, generation, opts)
    [] setter = "SetDependenciesReady" -> SetDependenciesReady(conditions, generation)
    [] setter = "SetDependenciesNotReady" ->
         SetDependenciesNotReady(conditions, opts.Message, generation)
    [] setter = "SetProviderConfigReady" -> SetProviderConfigReady(conditions, generation)
    [] setter = "SetProviderConfigNotReady" ->
         SetProviderConfigNotReady(conditions, opts.Message, generation)
    [] setter = "SetProviderValidationSuccessful" ->
         SetProviderValidationSuccessful(conditions, generation)
    [] setter = "SetProviderValidationFailed" ->
         SetProviderValidationFailed(conditions, generation, opts)
    [] setter = "SetTerminating" -> SetTerminating(conditions, generation)
    [] setter = "SetDeletionBlocked" -> SetDeletionBlocked(conditions, generation, opts)
    [] setter = "SetDeleted" -> SetDeleted(conditions, generation)
    [] setter = "SetOrphaned" -> SetOrphaned(conditions, generation, opts)

\* The condition types the named setter sets, in the order of its calls.
TypesSet(setter) ==
  CASE setter \in {"SetSynced", "SetNotSynced"} -> <<condSynced>>
    [] setter \in {"SetReady", "SetNotReady", "SetProviderValidationSuccessful",
                   "SetProviderValidationFailed"} -> <<condReady>>
    [] setter \in {"SetDependenciesReady", "SetDependenciesNotReady",
                   "SetProviderConfigReady", "SetProviderConfigNotReady"} ->
         <<condDependenciesReady>>
    [] OTHER -> <<condSynced, condReady>>

ApplySetter ==
  /\ conds.calls < MaxSetterCalls
  /\ \E setter \in Setters, generation \in 1..MaxVersion, opts \in Overrides :
       LET types == TypesSet(setter)
           set == {types[i] : i \in DOMAIN types}
           seen == {conds.order[i] : i \in DOMAIN conds.order}
       IN conds' =
            [conditions |-> CallSetter(setter, conds.conditions, generation, opts),
             order |-> conds.order \o SelectSeq(types, LAMBDA t : t \notin seen),
             latest |-> [t \in ConditionTypes |->
                           IF t \in set THEN generation ELSE conds.latest[t]],
             calls |-> conds.calls + 1]
  /\ UNCHANGED <<scenario, objs, cloud, pc, secret, cache, nextClient, impl, faults, out,
                 procs, evicted, requeued, do, resolution>>

ConditionSpec ==
  /\ InitWith("otc", {Scenario({}, {}, <<>>)}, 0)
  /\ [][ApplySetter]_vars

\* ------------------------------------------------- the resolver on its own
\* The objects a Resolve<Kind> call can meet: the two of the kind, and the
\* SecurityGroup that has the name of the first.
Candidates(kind) ==
  {x \in Objects \cup Siblings : KindOf(x) = kind /\ NameOf(x) = x}
  \cup {x \in Siblings : NameOf(x) # x /\ KindOf(NameOf(x)) = kind}

\* A stored object with the given external ID and Ready condition ("none":
\* the status has no Ready condition).
Stored(id, ready) ==
  [NewObject(TRUE, FALSE) EXCEPT
     !.status.externalID = id,
     !.status.conditions = CASE ready = "True" -> SetReady(<<>>, 1, NoOpts)
                             [] ready = "False" -> SetNotReady(<<>>, 1, NoOpts)
                             [] OTHER -> <<>>]

\* NewDependencyResolver: the namespace holds some of the candidates, each
\* with or without an external ID and a Ready condition; the dependency has
\* any of its three variants populated (admission wants exactly one, the
\* resolver does not look); the Get or List may fail.
InitResolver ==
  /\ scenario = Scenario({}, {}, <<>>)
  /\ objs = [o \in Objects |-> Gone]
  /\ cloud = <<>>
  /\ pc = [exists |-> TRUE, ready |-> TRUE, generation |-> 1]
  /\ secret = [exists |-> TRUE, resourceVersion |-> 1]
  /\ cache = <<>>
  /\ nextClient = 0
  /\ impl = "otc"
  /\ faults = 0
  /\ out = NoReconcile
  /\ procs = <<>>
  /\ evicted = {}
  /\ requeued = {}
  /\ do = NoCall
  /\ conds = NoConditions
  /\ \E kind \in DependencyKinds :
       \E store \in [Candidates(kind) ->
                       {Gone} \cup {Stored(id, ready) : id \in {"", "id"},
                                                       ready \in {"True", "False", "none"}}],
          id \in {"", "x-id"},
          ref \in {"", "missing"} \cup {x \in Objects : KindOf(x) = kind},
          selector \in {"", "none"} \cup {x \in Objects : KindOf(x) = kind},
          fail \in {"none", "dependencyGet"} :
         resolution =
           [NoResolution EXCEPT
              !.at = "call", !.kind = kind, !.dep = Dependency(id, ref, selector),
              !.fail = fail,
              !.store = [x \in Candidates(kind) |->
                           IF store[x].status.externalID = "" THEN store[x]
                           ELSE [store[x] EXCEPT !.status.externalID = "id-" \o x]]]

\* DependencyResolver.Resolve<Kind>, called once; reads are the API calls it
\* made.
ResolveDependency ==
  /\ resolution.at = "call"
  /\ \E r \in {Resolve([objs |-> resolution.store,
                         deps |-> [NoDependencies EXCEPT
                                     ![resolution.kind] = resolution.dep],
                         in |-> [fail |-> resolution.fail, status |-> ""],
                         reached |-> {}],
                        resolution.kind)} :
       resolution' = [resolution EXCEPT !.at = "done", !.id = r.id, !.err = r.err,
                                    !.reads = r.rc.reached]
  /\ UNCHANGED <<scenario, objs, cloud, pc, secret, cache, nextClient, impl, faults, out,
                 procs, evicted, requeued, do, conds>>

ResolverSpec == InitResolver /\ [][ResolveDependency]_vars

\* ------------------------------------------------------------ admission
Range(s) == {s[i] : i \in DOMAIN s}

\* A validate<Kind>Dependency that wants at least one variant.
validateDependencyAtLeastOne(dep) ==
  IF dep = NoDependency
  THEN Errorf("exactly one of ID, Ref or Selector must be specified") ELSE Nil

\* validate<Kind>Dependency: counts the variants that are not nil and wants
\* exactly one.
validateDependency(dep) ==
  LET count == Cardinality({f \in {"ID", "Ref", "Selector"} : dep[f] # ""})
  IN IF count = 0 THEN Errorf("exactly one of ID, Ref or Selector must be specified")
     ELSE IF count > 1 THEN Errorf("only one of ID, Ref or Selector can be specified")
     ELSE Nil

\* <Kind>CustomValidator.ValidateCreate, as far as the dependencies go: the
\* errors of the dependencies the kind's spec has.
ValidateCreate(kind, deps) ==
  SelectSeq([i \in DOMAIN DependenciesOf(kind) |->
               validateDependency(deps[DependenciesOf(kind)[i]])],
            LAMBDA err : err # Nil)

\* The variants a submitted spec may populate, one, none or several at once.
SubmittedDependencies ==
  {Dependency(id, ref, selector) :
     id \in {"", "x-id"}, ref \in {"", "net"}, selector \in {"", "net"}}

\* kubectl create of o with the spec of the scenario: the API server asks the
\* validating webhook and stores the object only when it returns no error;
\* the stored object is handed to its reconciler.
Submit(o) ==
  /\ o \in DOMAIN scenario.deps /\ ~objs[o].exists /\ out.object # o
  /\ IF ValidateCreate(KindOf(o), scenario.deps[o]) = <<>>
     THEN /\ objs' = [objs EXCEPT ![o] = NewObject(TRUE, FALSE)]
          /\ requeued' = requeued \cup {o}
          /\ out' = [NoReconcile EXCEPT !.object = o, !.path = "ADMITTED"]
     ELSE /\ out' = [NoReconcile EXCEPT !.object = o, !.path = "REJECTED"]
          /\ UNCHANGED <<objs, requeued>>
  /\ UNCHANGED <<scenario, cloud, pc, secret, cache, nextClient, impl, faults,
                 procs, evicted, do, conds, resolution>>

\* One object with dependencies is submitted with any combination of variants
\* in each of them, and reconciled when it was admitted.
AdmissionSpec ==
  /\ InitWith("otc",
              UNION { {Scenario({}, {}, o :> d) :
                         d \in {d \in [DependencyKinds -> SubmittedDependencies] :
                                  \A k \in DependencyKinds :
                                     k \notin Range(DependenciesOf(KindOf(o)))
                                     => d[k] = NoDependency}}
                      : o \in {"sub", "sgr", "nat", "snat"} },
              MaxFaults)
  /\ [][\E o \in Objects : Submit(o) \/ Reconcile(o)]_vars

\* ------------------------------------------- the ProviderConfig reconciler
\* In this part pc is the whole ProviderConfig object: besides exists, ready
\* (its stored Ready condition is True) and generation it has the finalizer,
\* the deletion timestamp, the conditions and lastValidationTime.
validationRequeueDelay == 300
providerConfigRequeueDelay == 30

NewProviderConfig ==
  [exists |-> TRUE, ready |-> FALSE, generation |-> 1, finalizer |-> FALSE,
   deleting |-> FALSE, conditions |-> <<>>, lastValidationTime |-> FALSE]

\* What one invocation can be made to suffer.
ProviderConfigFailures ==
  {"none", "get", "finalizerUpdate", "providerInit", "validate", "finalizerRemove",
   "statusPatch"}

\* An Invalidate that leaves the entry in the cache.
InvalidateEntryKept(c) == c

\* ProviderCache.Invalidate on the cache of the one key: delete(p.cache, key).
InvalidateEntry(c) == <<>>

\* ProviderConfigReconciler.reconcileDelete: Invalidate, then RemoveFinalizer.
reconcileDeleteProviderConfig(fail) ==
  IF ~pc.finalizer
  THEN [pc |-> pc, cache |-> cache, nextClient |-> nextClient, path |-> "DELETE",
        result |-> NoRequeue, err |-> Nil, conditions |-> pc.conditions]
  ELSE [pc |-> IF fail = "finalizerRemove" THEN pc
               ELSE [pc EXCEPT !.exists = FALSE, !.finalizer = FALSE],
        cache |-> InvalidateEntry(cache), nextClient |-> nextClient, path |-> "DELETE",
        result |-> NoRequeue,
        err |-> IF fail = "finalizerRemove" THEN ErrAPI ELSE Nil,
        conditions |-> pc.conditions]

\* ProviderConfigReconciler.Reconcile after the deletion check, up to the
\* return: the finalizer, GetOrCreate, Validate. conditions is the condition
\* list in memory at the return.
validateProviderConfig(fail) ==
  IF ~pc.finalizer
  THEN [pc |-> IF fail = "finalizerUpdate" THEN pc ELSE [pc EXCEPT !.finalizer = TRUE],
        cache |-> cache, nextClient |-> nextClient, path |-> "FINALIZER",
        result |-> IF fail = "finalizerUpdate" THEN NoRequeue ELSE RequeueNow,
        err |-> IF fail = "finalizerUpdate" THEN ErrAPI ELSE Nil,
        conditions |-> pc.conditions]
  ELSE Only({
    IF g.err # Nil
    THEN [pc |-> pc, cache |-> g.rc.cache, nextClient |-> g.rc.nextClient,
          path |-> "INIT_FAILED",
          result |-> RequeueAfter(providerConfigRequeueDelay), err |-> Nil,
          conditions |->
            SetNotReady(pc.conditions, pc.generation,
                        WithReasonMessage("ProviderInitializationFailed",
                          "Failed to initialize provider client: " \o g.err.text))]
    ELSE IF fail = "validate"
    THEN [pc |-> pc, cache |-> InvalidateEntry(g.rc.cache),
          nextClient |-> g.rc.nextClient, path |-> "VALIDATION_FAILED",
          result |-> RequeueAfter(validationRequeueDelay), err |-> Nil,
          conditions |->
            SetProviderValidationFailed(pc.conditions, pc.generation,
                                        WithMessage("Provider validation failed"))]
    ELSE [pc |-> [pc EXCEPT !.lastValidationTime = TRUE], cache |-> g.rc.cache,
          nextClient |-> g.rc.nextClient, path |-> "VALIDATED",
          result |-> RequeueAfter(validationRequeueDelay), err |-> Nil,
          conditions |-> SetProviderValidationSuccessful(pc.conditions, pc.generation)]
    : g \in {GetOrCreate([in |-> [fail |-> fail, status |-> ""], cache |-> cache,
                          nextClient |-> nextClient, reached |-> {}])} })

\* ProviderConfigReconciler.Reconcile: the Get, the deletion branch (which
\* runs before the status patch is deferred), else the body and the deferred
\* status patch, whose error is dropped.
RunProviderConfig(fail) ==
  IF fail = "get"
  THEN [pc |-> pc, cache |-> cache, nextClient |-> nextClient, path |-> "",
        result |-> NoRequeue, err |-> ErrAPI, conditions |-> pc.conditions]
  ELSE IF pc.deleting
  THEN reconcileDeleteProviderConfig(fail)
  ELSE Only({ IF fail = "statusPatch"
              THEN [r EXCEPT !.pc.lastValidationTime = pc.lastValidationTime]
              ELSE [r EXCEPT !.pc.conditions = r.conditions,
                             !.pc.ready = IsStatusConditionTrue(r.conditions, condReady)]
              : r \in {validateProviderConfig(fail)} })

ReconcileProviderConfig ==
  /\ pc.exists
  /\ \E fail \in ProviderConfigFailures :
       \E r \in {RunProviderConfig(fail)} :
          /\ r.nextClient <= MaxClients
          /\ pc' = r.pc
          /\ cache' = r.cache
          /\ nextClient' = r.nextClient
          /\ evicted' = IF cache # <<>> /\ r.cache = <<>>
                        THEN evicted \cup {cache[1].provider} ELSE evicted
          /\ out' = [object |-> "providerconfig", again |-> out.object = "providerconfig",
                     path |-> r.path, calls |-> <<>>, got |-> <<>>, result |-> r.result,
                     err |-> r.err, fail |-> fail,
                     status |-> [conditions |-> r.conditions]]
  /\ UNCHANGED <<scenario, objs, cloud, secret, impl, faults, procs, requeued, do,
                 conds, resolution>>

\* kubectl delete of the ProviderConfig, and its creation anew.
DeleteProviderConfig ==
  /\ pc.exists /\ ~pc.deleting
  /\ pc' = IF pc.finalizer THEN [pc EXCEPT !.deleting = TRUE]
           ELSE [pc EXCEPT !.exists = FALSE]
  /\ out' = NoReconcile
  /\ UNCHANGED <<scenario, objs, cloud, secret, cache, nextClient, impl, faults, procs,
                 evicted, requeued, do, conds, resolution>>

CreateProviderConfig ==
  /\ ~pc.exists
  /\ pc' = NewProviderConfig
  /\ out' = NoReconcile
  /\ UNCHANGED <<scenario, objs, cloud, secret, cache, nextClient, impl, faults, procs,
                 evicted, requeued, do, conds, resolution>>

\* The ProviderConfig's spec is edited, its secret is written or deleted.
EditProviderConfig ==
  /\ pc.exists /\ ~pc.deleting /\ pc.generation < MaxVersion
  /\ pc' = [pc EXCEPT !.generation = @ + 1]
  /\ out' = NoReconcile
  /\ UNCHANGED <<scenario, objs, cloud, secret, cache, nextClient, impl, faults, procs,
                 evicted, requeued, do, conds, resolution>>

WriteSecret ==
  /\ secret.resourceVersion < MaxVersion
  /\ secret' = [exists |-> TRUE, resourceVersion |-> secret.resourceVersion + 1]
  /\ out' = NoReconcile
  /\ UNCHANGED <<scenario, objs, cloud, pc, cache, nextClient, impl, faults, procs,
                 evicted, requeued, do, conds, resolution>>

DeleteSecret ==
  /\ secret.exists
  /\ secret' = [secret EXCEPT !.exists = FALSE]
  /\ out' = NoReconcile
  /\ UNCHANGED <<scenario, objs, cloud, pc, cache, nextClient, impl, faults, procs,
                 evicted, requeued, do, conds, resolution>>

\* The ProviderConfig reconciler alone, with every call of it able to fail,
\* while the ProviderConfig is edited, deleted and created again and its
\* secret is written and deleted.
ProviderConfigSpec ==
  /\ scenario = Scenario({}, {}, <<>>)
  /\ objs = [o \in Objects |-> Gone]
  /\ cloud = <<>>
  /\ pc = NewProviderConfig
  /\ secret = [exists |-> TRUE, resourceVersion |-> 1]
  /\ cache = <<>>
  /\ nextClient = 0
  /\ impl = "otc"
  /\ faults = 0
  /\ out = NoReconcile
  /\ procs = <<>>
  /\ evicted = {}
  /\ requeued = {}
  /\ do = NoCall
  /\ conds = NoConditions
  /\ resolution = NoResolution
  /\ [][\/ ReconcileProviderConfig
        \/ DeleteProviderConfig
        \/ CreateProviderConfig
        \/ EditProviderConfig
        \/ WriteSecret
        \/ DeleteSecret]_vars

\* ------------------------------- invalidation after a failed validation
\* The ProviderConfig reconciler among the other callers of GetOrCreate: a
\* worker whose call returned a client is the ProviderConfig reconciler, its
\* Validate fails and it calls Invalidate (providerconfig_controller.go:
\* 114-128). out keeps the number of the last client built by then and the
\* client removed. One such invalidation is followed.
ValidationFailed(w) ==
  /\ out = NoReconcile
  /\ procs[w].at = "done" /\ ~procs[w].failed
  /\ cache # <<>>
  /\ cache' = <<>>
  /\ evicted' = evicted \cup {cache[1].provider}
  /\ procs' = [procs EXCEPT ![w] = Idle]
  /\ out' = [object |-> "providerconfig", path |-> "VALIDATION_FAILED",
             built |-> nextClient, removed |-> cache[1].provider]
  /\ UNCHANGED <<scenario, objs, cloud, pc, secret, nextClient, impl, faults, requeued,
                 do, conds, resolution>>

InvalidationSpec ==
  /\ InitCache
  /\ [][\/ \E w \in Workers : GetConfig(w)
        \/ \E w \in Workers : EvictMissing(w)
        \/ \E w \in Workers : GetSecret(w)
        \/ \E w \in Workers : CheckCache(w)
        \/ \E w \in Workers : CreateClient(w)
        \/ \E w \in Workers : StoreEntry(w)
        \/ \E w \in Workers : ValidationFailed(w)
        \/ ConfigUpdated
        \/ ConfigReplaced
        \/ SecretUpdated
        \/ SecretDeleted]_vars

\* ------------------------------------------------ admission of an update
\* The spec of a Network or a Subnet as the validating webhook sees it. A
\* Network has no network dependency and no gateway.
WebhookSpec(providerConfigRef, network, cidr, gatewayIP, description) ==
  [providerConfigRef |-> providerConfigRef, network |-> network, cidr |-> cidr,
   gatewayIP |-> gatewayIP, description |-> description]

SubmittedSpecs(kind) ==
  {WebhookSpec(ref, network, cidr, gatewayIP, description) :
     ref \in {"pc1", "pc2"},
     network \in IF kind = "Subnet"
                 THEN {Dependency("x-id", "", ""), Dependency("", "net", "")}
                 ELSE {NoDependency},
     cidr \in {"10.0.0.0/16", "10.1.0.0/16"},
     gatewayIP \in IF kind = "Subnet" THEN {"10.0.0.1", "10.0.0.2"} ELSE {""},
     description \in {"d1", "d2"}}

\* field.Forbidden(path, "is immutable and cannot be changed after creation")
\* for each of the fields whose values differ, in the order of the fields.
Forbidden(fields, old, new) ==
  SelectSeq(fields, LAMBDA f : old.spec[f] # new.spec[f])

\* The two warnings about orphanOnDelete.
OrphanWarnings(old, new) ==
  (IF ~old.orphanOnDelete /\ new.orphanOnDelete
   THEN <<"orphanOnDelete changed to true">> ELSE <<>>)
  \o (IF old.orphanOnDelete /\ ~new.orphanOnDelete
      THEN <<"orphanOnDelete changed to false">> ELSE <<>>)

\* apierrors.NewInvalid(groupKind, name, errors): an error whatever errors
\* holds.
NewInvalid(kind, errors) ==
  [warnings |-> <<>>, err |-> Errorf(kind \o " is invalid"), errors |-> errors]

\* NetworkCustomValidator.ValidateUpdate.
NetworkValidateUpdate(old, new) ==
  LET errors == Forbidden(<<"providerConfigRef", "cidr">>, old, new)
  IN IF Len(errors) = 0
     THEN [warnings |-> OrphanWarnings(old, new), err |-> Nil, errors |-> errors]
     ELSE [NewInvalid("Network", errors) EXCEPT !.warnings = OrphanWarnings(old, new)]

\* SubnetCustomValidator.ValidateUpdate: the return is not guarded by
\* len(errors) == 0.
SubnetValidateUpdate(old, new) ==
  LET errors == Forbidden(<<"providerConfigRef", "network", "cidr", "gatewayIP">>,
                          old, new)
  IN [NewInvalid("Subnet", errors) EXCEPT !.warnings = OrphanWarnings(old, new)]

ValidateUpdate(kind, old, new) ==
  IF kind = "Subnet" THEN SubnetValidateUpdate(old, new)
  ELSE NetworkValidateUpdate(old, new)

\* An update of o reaches the API server, which asks the validating webhook
\* and stores the object only when it returns no error.
Admit(o, new, by) ==
  \E r \in {ValidateUpdate(KindOf(o), objs[o], new)} :
     /\ objs' = IF r.err = Nil THEN [objs EXCEPT ![o] = new] ELSE objs
     /\ out' = [object |-> o, path |-> IF r.err = Nil THEN "ADMITTED" ELSE "REJECTED",
                by |-> by, old |-> objs[o], new |-> new, errors |-> r.errors,
                warnings |-> r.warnings]
     /\ UNCHANGED <<scenario, cloud, pc, secret, cache, nextClient, impl, faults,
                    procs, evicted, requeued, do, conds, resolution>>

\* kubectl apply of a changed manifest.
SubmitUpdate(o) ==
  /\ objs[o].exists
  /\ \E spec \in SubmittedSpecs(KindOf(o)), orphan \in BOOLEAN :
       Admit(o, [objs[o] EXCEPT !.spec = spec, !.orphanOnDelete = orphan,
                                !.generation = IF spec = objs[o].spec THEN @ ELSE 2],
             "user")

\* The reconciler's AddFinalizer: a client.Update of the object, which passes
\* the same webhook.
SubmitFinalizer(o) ==
  /\ objs[o].exists /\ ~objs[o].finalizer
  /\ Admit(o, [objs[o] EXCEPT !.finalizer = TRUE], "controller")

\* A Network or a Subnet with any spec is updated by its user and by its
\* reconciler.
UpdateSpec ==
  /\ scenario \in {Scenario({o}, {}, <<>>) : o \in {"net", "sub"}}
  /\ \E spec \in UNION {SubmittedSpecs(k) : k \in {"Network", "Subnet"}} :
       objs = [o \in Objects |->
                 IF o \in scenario.members /\ spec \in SubmittedSpecs(KindOf(o))
                 THEN [NewObject(TRUE, FALSE) EXCEPT !.spec = spec] ELSE Gone]
  /\ \E o \in Objects : objs[o].exists
  /\ cloud = <<>>
  /\ pc = [exists |-> TRUE, ready |-> TRUE, generation |-> 1]
  /\ secret = [exists |-> TRUE, resourceVersion |-> 1]
  /\ cache = <<>>
  /\ nextClient = 0
  /\ impl = "otc"
  /\ faults = 0
  /\ out = NoReconcile
  /\ procs = <<>>
  /\ evicted = {}
  /\ requeued = {}
  /\ do = NoCall
  /\ conds = NoConditions
  /\ resolution = NoResolution
  /\ [][\E o \in Objects : SubmitUpdate(o) \/ SubmitFinalizer(o)]_vars

\* ------------------------------------------------- a create in flight
\* One reconcile that creates is followed in three steps, so that the
\* reconciles of other objects run in between: the reads up to the provider's
\* create call (BeginCreate), the provider storing the resource (CreateLands)
\* and the return with the deferred status patch (FinishCreate). procs holds
\* the invocation: the resolved NetworkID it sends, the resource and the ID
\* the provider answers with, the status read and the status in memory.
InFlight(o) == procs # <<>> /\ procs[1].object = o /\ procs[1].at # "done"

BeginCreate(o) ==
  /\ objs[o].exists /\ procs = <<>>
  /\ \E r \in {Run(o, NoFailure)} :
       /\ ("Create" \o KindOf(o)) \in Range(r.calls)
       /\ Len(r.cloud) = Len(cloud) + 1 /\ Len(r.cloud) <= MaxResources
       /\ r.nextClient <= MaxClients
       /\ procs' = <<[object |-> o, at |-> "call",
                      network |-> r.returned.resolvedDependencies.NetworkID,
                      id |-> r.returned.externalID, resource |-> r.cloud[Len(r.cloud)],
                      original |-> objs[o].status, status |-> r.returned,
                      path |-> r.path, calls |-> r.calls, result |-> r.result,
                      err |-> r.err]>>
       /\ cache' = r.cache
       /\ nextClient' = r.nextClient
  /\ out' = NoReconcile
  /\ UNCHANGED <<scenario, objs, cloud, pc, secret, impl, faults, evicted, requeued, do,
                 conds, resolution>>

CreateLands(o) ==
  /\ procs # <<>> /\ procs[1].object = o /\ procs[1].at = "call"
  /\ ResourceID(Len(cloud) + 1) = procs[1].id
  /\ cloud' = Append(cloud, procs[1].resource)
  /\ procs' = <<[procs[1] EXCEPT !.at = "created"]>>
  /\ out' = NoReconcile
  /\ UNCHANGED <<scenario, objs, pc, secret, cache, nextClient, impl, faults, evicted,
                 requeued, do, conds, resolution>>

FinishCreate(o) ==
  /\ procs # <<>> /\ procs[1].object = o /\ procs[1].at = "created"
  /\ objs' = IF objs[o].exists
             THEN [objs EXCEPT ![o].status =
                     MergePatch(@, procs[1].original, procs[1].status)]
             ELSE objs
  /\ procs' = <<[procs[1] EXCEPT !.at = "done"]>>
  /\ out' = [object |-> o, again |-> FALSE, path |-> procs[1].path,
             calls |-> procs[1].calls, got |-> <<>>, result |-> procs[1].result,
             err |-> procs[1].err, fail |-> "none", status |-> procs[1].status]
  /\ requeued' = IF Requeues(procs[1].result, procs[1].err)
                 THEN requeued \cup {o} ELSE requeued \ {o}
  /\ UNCHANGED <<scenario, cloud, pc, secret, cache, nextClient, impl, faults, evicted,
                 do, conds, resolution>>

\* A Network with a Subnet or a NATGateway that depends on it: every object
\* has one worker, the workers of different objects run concurrently, and the
\* user deletes at any time.
RaceSpec ==
  /\ InitWith("otc", {scn \in Scenarios : "net" \in scn.members}, 0)
  /\ [][\E o \in Objects :
          \/ Reconcile(o) /\ ~InFlight(o)
          \/ UserDelete(o)
          \/ BeginCreate(o)
          \/ CreateLands(o)
          \/ FinishCreate(o)]_vars

\* ------------------------------------------------------------------ claims

\* A step is a delete reconcile of o when Reconcile(o) read the object with
\* its deletion timestamp set.
DeleteReconcile(o) == out'.object = o /\ out'.fail # "get" /\ objs[o].deleting

\* Both conditions of a status are False with this reason, Synced with this
\* message.
NotSyncedNotReady(status, reason, message) ==
  /\ \E i \in FindCondition(status.conditions, condSynced) :
       /\ status.conditions[i].Status = "False"
       /\ status.conditions[i].Reason = reason
       /\ status.conditions[i].Message = message
  /\ \E i \in FindCondition(status.conditions, condReady) :
       /\ status.conditions[i].Status = "False"
       /\ status.conditions[i].Reason = reason

\* The objects of the kinds listed for o's deletion whose resolved field
\* records o's external ID.
Recording(o, candidates, field) ==
  SelectSeq(candidates,
            LAMBDA x : /\ objs[x].exists
                       /\ objs[x].status.resolvedDependencies[field]
                            = objs[o].status.externalID)

NetworkBlockers == Recording("net", <<"sub", "nat">>, "NetworkID")

\* What a blocked delete reconcile of o leaves: a requeue after the fixed
\* delay, no Delete<Kind> call, the object and its finalizer in place.
Blocked(o) ==
  /\ out'.result = RequeueAfter(requeueDelay)
  /\ ("Delete" \o KindOf(o)) \notin Range(out'.calls)
  /\ objs'[o].exists /\ objs'[o].finalizer

\* The DeletionBlocked condition naming the blockers, returned without error.
BlockedBy(names) ==
  /\ out'.err = Nil
  /\ NotSyncedNotReady(out'.status, "DeletionBlocked",
                       "Still referenced by [" \o Join(names) \o "]")

\* C1 (as amended): a delete reconcile of a Network with a non-empty external
\* ID that a Subnet or NATGateway records as its resolved NetworkID is blocked
\* with a requeue, issues no DeleteNetwork call and keeps the finalizer; when
\* the reference listings succeed it returns no error and sets the
\* DeletionBlocked condition naming the blockers.
C1_NetworkDeleteBlocked ==
  [][ DeleteReconcile("net") /\ objs["net"].status.externalID # ""
        /\ NetworkBlockers # <<>>
      => /\ Blocked("net")
         /\ out'.fail # "referenceList" => BlockedBy(NetworkBlockers) ]_vars

\* C1 as stated: every such delete reconcile sets the DeletionBlocked
\* condition naming the blockers, whether or not the listings succeed.
C1_AsStated ==
  [][ DeleteReconcile("net") /\ objs["net"].status.externalID # ""
        /\ NetworkBlockers # <<>>
      => Blocked("net") /\ BlockedBy(NetworkBlockers) ]_vars

\* C1's case: the last reconcile was a delete reconcile of the Network that
\* a Subnet or NATGateway blocked.
C1_Witness ==
  /\ out.object = "net" /\ objs["net"].deleting /\ objs["net"].finalizer
  /\ NetworkBlockers # <<>>
  /\ "DeleteNetwork" \notin Range(out.calls)
  /\ NotSyncedNotReady(out.status, "DeletionBlocked",
                       "Still referenced by [" \o Join(NetworkBlockers) \o "]")

SubnetBlockers == Recording("sub", <<"nat", "snat">>, "SubnetID")
PublicIPBlockers == Recording("pip", <<"snat">>, "PublicIPID")

\* C2: a delete reconcile of a Subnet whose non-empty external ID a
\* NATGateway or SNATRule records as its resolved SubnetID is blocked (no
\* DeleteSubnet call, finalizer kept, DeletionBlocked set), and so is a delete
\* reconcile of a PublicIP whose external ID a SNATRule records as its resolved
\* PublicIPID. Only reconciles in which no call fails are held to it.
C2_SubnetAndPublicIPDeleteBlocked ==
  [][ /\ DeleteReconcile("sub") /\ out'.fail = "none"
           /\ objs["sub"].status.externalID # "" /\ SubnetBlockers # <<>>
         => Blocked("sub") /\ BlockedBy(SubnetBlockers)
      /\ DeleteReconcile("pip") /\ out'.fail = "none"
           /\ objs["pip"].status.externalID # "" /\ PublicIPBlockers # <<>>
         => Blocked("pip") /\ BlockedBy(PublicIPBlockers) ]_vars

\* The two halves of C2, each violated on its own.
C2_SubnetHalf ==
  [][ DeleteReconcile("sub") /\ out'.fail = "none"
        /\ objs["sub"].status.externalID # "" /\ SubnetBlockers # <<>>
      => Blocked("sub") ]_vars
C2_PublicIPHalf ==
  [][ DeleteReconcile("pip") /\ out'.fail = "none"
        /\ objs["pip"].status.externalID # "" /\ PublicIPBlockers # <<>>
      => Blocked("pip") ]_vars

\* The existing external resources a Create<Kind> for o has created.
Owned(o) == {i \in 1..Len(cloud) : cloud[i].exists /\ cloud[i].owner = o}

\* C3: no reconcile of an object issues a Create<Kind> while an external
\* resource that an earlier Create<Kind> for that object created still exists,
\* whatever failed before.
C3_NoSecondCreate ==
  [][ \A o \in Objects :
        out'.object = o /\ ("Create" \o KindOf(o)) \in Range(out'.calls)
        => Owned(o) = {} ]_vars

\* Get<Kind> returned (nil, nil) in the reconcile that o records.
GotNilNil(o) == o.got # <<>> /\ o.got[1].info = <<>> /\ o.got[1].err = Nil

\* The not-found reset as the reconcile leaves it in memory.
WasReset(o) ==
  /\ o.path = "UPDATE" /\ GotNilNil(o)
  /\ o.status.externalID = "" /\ o.status.lastAppliedSpec = <<>>

Lost(o) ==
  /\ objs[o].exists /\ ~objs[o].deleting
  /\ objs[o].status.externalID # "" /\ objs[o].status.lastAppliedSpec # <<>>
  /\ Lookup(cloud, objs[o].status.externalID) = {}
  /\ faults = 0 /\ pc.exists /\ pc.ready /\ secret.exists

Recovered(o) ==
  /\ objs[o].status.externalID # ""
  /\ Lookup(cloud, objs[o].status.externalID) # {}
  /\ IsStatusConditionTrue(objs[o].status.conditions, condSynced)
  /\ IsStatusConditionTrue(objs[o].status.conditions, condReady)

\* C5: once the external resource of an object is deleted out-of-band and
\* everything else stays healthy, the object is eventually Synced and Ready
\* with a newly created external resource (unless the user deletes it first).
C5_RecreatedAfterOutOfBandDelete ==
  (\E o \in Objects : Lost(o))
  ~> (\A o \in Objects : objs[o].exists /\ ~objs[o].deleting => Recovered(o))

\* The second half of C5: a reconcile whose Get<Kind> met a 404 does not
\* report a provider error.
C5_NotFoundIsNoProviderError ==
  [][ out'.got # <<>> /\ out'.got[1].notFound
      => \A i \in 1..Len(out'.status.conditions) :
           out'.status.conditions[i].Reason # "ProviderError" ]_vars

\* C6: a Get<Kind> for an ID the cloud reports as nonexistent returns a nil
\* info and a nil error.
C6_GetNotFoundReturnsNil ==
  out.got # <<>> /\ out.got[1].notFound
  => out.got[1].info = <<>> /\ out.got[1].err = Nil

\* o has an external ID, a baseline equal to its spec and an existing external
\* resource, and is not being deleted.
Current(o) ==
  /\ objs[o].exists /\ ~objs[o].deleting
  /\ objs[o].status.externalID # ""
  /\ objs[o].status.lastAppliedSpec = <<objs[o].spec>>
  /\ Lookup(cloud, objs[o].status.externalID) # {}

\* C7: for every kind, the second of two reconciles in a row of an object that
\* has a non-empty external ID, a baseline equal to its spec and an existing
\* external resource issues no provider call but Get<Kind> and leaves the
\* external ID and the baseline as they are.
C7_SecondReconcileOnlyReads ==
  [][ \A o \in Objects :
        out.object = o /\ out'.object = o /\ Current(o)
        => /\ Range(out'.calls) \subseteq {"Get" \o KindOf(o)}
           /\ objs'[o].status.externalID = objs[o].status.externalID
           /\ objs'[o].status.lastAppliedSpec = objs[o].status.lastAppliedSpec ]_vars

\* C7's case: the second reconcile in a row of a current object has run and
\* has read the external resource.
C7_Witness ==
  /\ out.again /\ out.fail = "none"
  /\ out.calls = <<"Get" \o KindOf(out.object)>>
  /\ Current(out.object)
  /\ KindOf(out.object) \in {"Network", "Subnet", "NATGateway"}

\* The deletion callback of the delete reconcile of o returned success: the
\* Delete<Kind> call was made and did not fail, or the callback of a Subnet
\* without a resolved NetworkID was reached and returned nil at once.
CallbackSucceeded(o) ==
  /\ out'.fail # "apiDelete"
  /\ \/ ("Delete" \o KindOf(o)) \in Range(out'.calls)
     \/ /\ KindOf(o) = "Subnet"
        /\ objs[o].status.resolvedDependencies.NetworkID = ""
        /\ out'.fail # "providerInit" /\ pc.exists /\ secret.exists

\* C10: a delete reconcile removes the finalizer only if the deletion callback
\* returned success, orphanOnDelete is set, the external ID is empty or the
\* ProviderConfig was not found; a failed callback or another error of the
\* provider acquisition keeps the finalizer and asks for a retry.
C10_FinalizerRemovedOnlyWhenDone ==
  [][ \A o \in Objects :
        DeleteReconcile(o) /\ objs[o].finalizer
        => /\ ~(objs'[o].exists /\ objs'[o].finalizer)
              => \/ CallbackSucceeded(o)
                 \/ objs[o].orphanOnDelete
                 \/ objs[o].status.externalID = ""
                 \/ ~pc.exists
           /\ out'.fail \in {"apiDelete", "providerInit"}
              => /\ objs'[o].exists /\ objs'[o].finalizer
                 /\ out'.result = RequeueAfter(requeueDelay) ]_vars


\* A step of worker w's GetOrCreate call.
Steps(w) == procs'[w] # procs[w]

\* C8: a GetOrCreate call that began after Invalidate had returned never
\* returns a client Invalidate had removed from the cache, whatever the
\* generation and the secret version are.
C8_InvalidatedClientNeverReturned ==
  \A w \in Workers :
     procs[w].at = "done" /\ procs[w].ret # 0 => procs[w].ret \notin procs[w].since

\* A call that began after an Invalidate has returned a client while the
\* generation and the secret version are the initial ones.
C8_Witness ==
  \E w \in Workers :
     /\ procs[w].at = "done" /\ procs[w].ret # 0 /\ procs[w].since # {}
     /\ pc = [exists |-> TRUE, ready |-> TRUE, generation |-> 1]
     /\ secret = [exists |-> TRUE, resourceVersion |-> 1]

\* The entry in the cache carries the two values worker w's call has read.
TagsMatch(w) ==
  /\ cache # <<>>
  /\ cache[1].configGeneration = procs[w].generation
  /\ cache[1].secretResourceVersion = procs[w].secretVersion

\* A call returns a client from the cache only at its validity test and only
\* when both tags match; a mismatch sends it on to construct a client.
ReuseOnlyOnMatch(w) ==
  /\ Steps(w) /\ procs'[w].at = "done" /\ procs'[w].cached
       => procs[w].at = "check" /\ TagsMatch(w) /\ procs'[w].ret = cache[1].provider
  /\ Steps(w) /\ procs[w].at = "check" /\ ~TagsMatch(w) => procs'[w].at = "create"

\* The construction yields a client no call has returned before.
Constructs(w) == procs'[w].at = "store" /\ procs'[w].provider = nextClient + 1

\* The store replaces the entry by the new client under the values read, and
\* the call returns that client.
Replaces(w) ==
  Steps(w) /\ procs[w].at = "store"
    => /\ cache' = <<providerEntry(procs[w].provider, procs[w].generation,
                                   procs[w].secretVersion)>>
       /\ procs'[w].at = "done" /\ procs'[w].ret = procs[w].provider

\* The construction failed: the call returns the error and no client, and the
\* entry stays as it is.
ConstructionFails(w) ==
  /\ ~pc.exists \/ ~secret.exists
  /\ procs'[w].at = "done" /\ procs'[w].failed /\ procs'[w].ret = 0
  /\ cache' = cache

\* C9 (amended): in every interleaving, GetOrCreate returns a cached client
\* only if both tags of the entry equal the values the call read; on a
\* mismatch it constructs a new client and replaces the entry, unless the
\* construction fails, and then it returns the error and leaves the entry.
C9_ReuseOnlyOnMatchElseReplace ==
  [][\A w \in Workers :
       /\ ReuseOnlyOnMatch(w)
       /\ Steps(w) /\ procs[w].at = "create" => Constructs(w) \/ ConstructionFails(w)
       /\ Replaces(w)]_vars

\* C9 as stated: on any mismatch a new client is constructed and replaces the
\* entry.
C9_AsStated ==
  [][\A w \in Workers :
       /\ ReuseOnlyOnMatch(w)
       /\ Steps(w) /\ procs[w].at = "create" => Constructs(w)
       /\ Replaces(w)]_vars

\* One call has returned a client from the cache, the generation has changed
\* and another call has replaced the entry by a client it constructed.
C9_Witness ==
  \E w, v \in Workers :
     /\ procs[w].at = "done" /\ procs[w].cached
     /\ procs[v].at = "done" /\ ~procs[v].cached /\ procs[v].ret > procs[w].ret
     /\ cache # <<>> /\ cache[1].provider = procs[v].ret
     /\ cache[1].configGeneration = 2


\* The object is stored as Synced and Ready with an external resource.
SyncedAndReady(o) ==
  /\ objs[o].status.externalID # ""
  /\ IsStatusConditionTrue(objs[o].status.conditions, condSynced)
  /\ IsStatusConditionTrue(objs[o].status.conditions, condReady)

\* C11: when nothing fails and only the reconciles the reconcilers request
\* are run, every newly submitted object is eventually Synced and Ready.
C11_NewObjectBecomesReady ==
  <>(\A o \in scenario.members : SyncedAndReady(o))


\* C12: a finished retry.Do call has returned ErrMaxRetriesReached whenever
\* MaxAttempts > 0 and fn asked for a retry more than MaxAttempts times; the
\* sentinel is none of the errors fn returns and is returned only after fn
\* asked for a retry; and when fn's last invocation asked for no retry, the
\* call has returned exactly the error of that invocation, nil included.
C12_SentinelOrLastError ==
  do.at = "done"
  => /\ do.MaxAttempts > 0 /\ do.n > do.MaxAttempts => do.ret = ErrMaxRetriesReached
     /\ do.ret = ErrMaxRetriesReached
          => do.last.retry /\ do.n > do.MaxAttempts /\ do.ret \notin FnErrors
     /\ do.calls > 0 /\ ~do.last.retry => do.ret = do.last.err

\* The call has returned the sentinel although fn's last invocation returned
\* an error of its own.
C12_Witness ==
  /\ do.at = "done" /\ do.ret = ErrMaxRetriesReached
  /\ do.last.err = ErrFailedToCreate /\ do.n > do.MaxAttempts

\* C13: with MaxAttempts = N > 0, retry.Do invokes fn at most N times.
C13_AtMostMaxAttemptsCalls ==
  do.MaxAttempts > 0 => do.calls <= do.MaxAttempts

\* The step of a call that decides while the context is cancelled: it returns
\* the context's error and fn is not invoked.
ReturnsContextError ==
  do'.at = "done" /\ do'.ret = ErrCanceled /\ do'.calls = do.calls

\* C14: a call whose context is already cancelled returns the context's error
\* without invoking fn, and a call whose context is cancelled while it is
\* between two attempts returns the context's error without invoking fn
\* again, whatever the delay.
C14_CancelledNeverInvokes ==
  [][do.cancelled /\ do.at \in {"enter", "select"} => ReturnsContextError]_vars

\* The first half of C14 alone: the context is cancelled before the call.
C14_CancelledOnEntry ==
  [][do.cancelled /\ do.at = "enter" => ReturnsContextError]_vars


\* The set holds a condition of the type, and its status is the given one.
HasStatus(conditions, typ, status) ==
  \E i \in FindCondition(conditions, typ) : conditions[i].Status = status

\* C15: applied to any condition set the setters produce, SetProvisioned
\* leaves Synced and Ready True, and SetDeletionBlocked leaves Synced and
\* Ready False, whatever generation, reason and message are passed.
C15_ProvisionedAndDeletionBlocked ==
  \A generation \in 1..MaxVersion :
     /\ \A typ \in {condSynced, condReady} :
          HasStatus(SetProvisioned(conds.conditions, generation), typ, "True")
     /\ \A opts \in Overrides, typ \in {condSynced, condReady} :
          HasStatus(SetDeletionBlocked(conds.conditions, generation, opts), typ, "False")

\* SetDeletionBlocked, with its message overridden, has acted on a set that
\* held another condition, and SetProvisioned is about to turn a Ready that is
\* False.
C15_Witness ==
  /\ Len(conds.conditions) = 3
  /\ conds.conditions[1].Type = condDependenciesReady
  /\ \A i \in 2..3 : /\ conds.conditions[i].Status = "False"
                      /\ conds.conditions[i].Reason = "DeletionBlocked"
                      /\ conds.conditions[i].Message = "what happened"

\* C16: after any sequence of setter calls the set holds at most one
\* condition per type, in the order in which the types were first set, each
\* with the generation of the latest call that set its type.
C16_OnePerTypeInOrder ==
  /\ \A i, j \in 1..Len(conds.conditions) :
       i # j => conds.conditions[i].Type # conds.conditions[j].Type
  /\ [i \in 1..Len(conds.conditions) |-> conds.conditions[i].Type] = conds.order
  /\ \A i \in 1..Len(conds.conditions) :
       conds.conditions[i].ObservedGeneration = conds.latest[conds.conditions[i].Type]

\* Three calls have set Synced twice, the second time under a newer
\* generation, and Ready once.
C16_Witness ==
  /\ conds.calls = 3
  /\ conds.order = <<condSynced, condReady>>
  /\ conds.latest[condSynced] = 2 /\ conds.latest[condReady] = 1


\* The call had only the selector variant populated, and has returned.
ResolvedBySelector ==
  /\ resolution.at = "done"
  /\ resolution.dep.ID = "" /\ resolution.dep.Ref = "" /\ resolution.dep.Selector # ""

\* The objects of the kind in the namespace that the selector matches.
Matching ==
  {x \in DOMAIN resolution.store :
     /\ resolution.store[x].exists
     /\ KindOf(x) = resolution.kind
     /\ AppOf(x) = resolution.dep.Selector}

AmbiguityError ==
  Wrap("failed to resolve " \o resolution.kind,
       Errorf("expected exactly one resource to match selector, but found "
              \o ToString(Cardinality(Matching))))
NoResourcesError ==
  Wrap("failed to resolve " \o resolution.kind,
       Errorf("no resources found matching selector"))
ListError ==
  Wrap("failed to resolve " \o resolution.kind,
       Wrap("failed to list resources with selector", ErrAPI))

\* C17 as stated: resolving by selector returns the ambiguity error when two
\* or more objects of the kind match, the 'no resources found' error when
\* none does, and no external ID in either case.
C17_AmbiguousOrAbsent ==
  ResolvedBySelector =>
    /\ Cardinality(Matching) >= 2 => resolution.err = AmbiguityError /\ resolution.id = ""
    /\ Cardinality(Matching) = 0 => resolution.err = NoResourcesError /\ resolution.id = ""

\* C17, amended: when the list call succeeds, resolving by selector returns
\* the ambiguity error for two or more matches and the different 'no
\* resources found' error for none; when the list call fails it returns the
\* list error; in all three cases it returns no external ID.
C17_AmbiguousOrAbsentWhenListed ==
  ResolvedBySelector /\ Cardinality(Matching) # 1 =>
    /\ resolution.id = ""
    /\ AmbiguityError # NoResourcesError
    /\ resolution.err =
         (CASE resolution.fail # "none" -> ListError
            [] Cardinality(Matching) = 0 -> NoResourcesError
            [] OTHER -> AmbiguityError)

\* A selector that matches two Ready objects was resolved, the list call
\* having succeeded.
C17_Witness ==
  /\ ResolvedBySelector /\ resolution.fail = "none"
  /\ Cardinality(Matching) = 2
  /\ \A x \in Matching :
       /\ resolution.store[x].status.externalID # ""
       /\ IsStatusConditionTrue(resolution.store[x].status.conditions, condReady)


\* The call had no explicit ID and the reference or the selector populated,
\* and has returned.
ResolvedByRefOrSelector ==
  /\ resolution.at = "done"
  /\ resolution.dep.ID = ""
  /\ resolution.dep.Ref # "" \/ resolution.dep.Selector # ""

\* The objects of the namespace the populated variant designates: those of
\* the referenced name or, without a reference, of the selected label.
Designated ==
  {x \in DOMAIN resolution.store :
     /\ resolution.store[x].exists
     /\ IF resolution.dep.Ref # "" THEN NameOf(x) = resolution.dep.Ref
        ELSE AppOf(x) = resolution.dep.Selector}

\* C18: by reference or by selector, Resolve<Kind> returns an external ID only
\* if it is the non-empty external ID of a designated object whose Ready
\* condition is True; otherwise it returns an error and the empty ID.
C18_IDOnlyOfReadySibling ==
  ResolvedByRefOrSelector =>
    IF resolution.id # ""
    THEN /\ resolution.err = Nil
         /\ \E x \in Designated :
              /\ resolution.store[x].status.externalID = resolution.id
              /\ IsStatusConditionTrue(resolution.store[x].status.conditions, condReady)
    ELSE resolution.err # Nil

\* A Subnet was resolved by reference to its ID while a second Subnet of the
\* namespace has an ID and is not Ready.
C18_Witness ==
  /\ ResolvedByRefOrSelector
  /\ resolution.kind = "Subnet" /\ resolution.dep.Ref = "sub"
  /\ resolution.id = "id-sub"
  /\ resolution.store["sub2"].exists
  /\ resolution.store["sub2"].status.externalID # ""
  /\ ~IsStatusConditionTrue(resolution.store["sub2"].status.conditions, condReady)


\* The designated objects that are of the kind the dependency names.
Targets == {x \in Designated : KindOf(x) = resolution.kind}

\* C19: ResolveNATGateway and ResolvePublicIP, given a reference or a selector
\* that identifies exactly one object of their kind that is Ready and has an
\* external ID, return that ID (the Get or List succeeding); and whatever they
\* return is the external ID of an object of their kind.
C19_ReturnsIDOfTheKind ==
  ResolvedByRefOrSelector /\ resolution.kind \in {"NATGateway", "PublicIP"} =>
    /\ ( /\ resolution.fail = "none"
         /\ Cardinality(Targets) = 1
         /\ \A x \in Targets :
              /\ resolution.store[x].status.externalID # ""
              /\ IsStatusConditionTrue(resolution.store[x].status.conditions, condReady) )
       => \E x \in Targets : resolution.id = resolution.store[x].status.externalID
    /\ resolution.id # "" =>
         \E x \in DOMAIN resolution.store :
           /\ resolution.store[x].exists
           /\ KindOf(x) = resolution.kind
           /\ resolution.store[x].status.externalID = resolution.id


\* C20: with a non-empty explicit ID, Resolve<Kind> returns that ID and no
\* error without a Get or List call, whatever the reference and the selector
\* name and whatever state the named objects are in.
C20_ExplicitIDWins ==
  resolution.at = "done" /\ resolution.dep.ID # "" =>
    /\ resolution.id = resolution.dep.ID
    /\ resolution.err = Nil
    /\ resolution.reads = {}

\* An explicit ID was returned although the reference names an object that is
\* not Ready, the selector matches two objects and a Get or List would fail.
C20_Witness ==
  /\ resolution.at = "done"
  /\ resolution.dep = Dependency("x-id", "net", "net")
  /\ resolution.id = "x-id"
  /\ resolution.fail = "dependencyGet"
  /\ resolution.store["net"].exists /\ resolution.store["net2"].exists
  /\ ~IsStatusConditionTrue(resolution.store["net"].status.conditions, condReady)


\* The variants of a dependency that are populated.
Populated(dep) == {f \in {"ID", "Ref", "Selector"} : dep[f] # ""}

\* The dependencies of o's spec that have no variant or several populated.
IllFormed(o) ==
  {k \in Range(DependenciesOf(KindOf(o))) :
     Cardinality(Populated(SpecDependencies(scenario, o)[k])) # 1}

\* C21: no Create<Kind> call is issued for an object that has a dependency
\* with no variant or with more than one variant populated, and no such
\* object is stored: admission rejects it.
C21_NoCreateForIllFormedDependency ==
  [][ \A o \in Objects :
        /\ objs'[o].exists => IllFormed(o) = {}
        /\ out'.object = o /\ ("Create" \o KindOf(o)) \in Range(out'.calls)
           => IllFormed(o) = {} ]_vars

\* A NATGateway whose network has an explicit ID and a reference at once,
\* which the resolver would resolve to the ID, was submitted and rejected.
C21_Witness ==
  /\ out.object = "nat" /\ out.path = "REJECTED"
  /\ ~objs["nat"].exists
  /\ scenario.deps["nat"].Network = Dependency("x-id", "net", "")
  /\ scenario.deps["nat"].Subnet = ByID("x-id")


\* C22: a delete reconcile in which the listing of a reference check fails
\* returns the listing error with a requeue after the fixed delay, sets Synced
\* and Ready to False in memory and in the store, issues no Delete<Kind> call
\* and leaves the object and its finalizer in place.
C22_ListingFailureBlocksDeletion ==
  [][ \A o \in Objects :
        DeleteReconcile(o) /\ out'.fail = "referenceList"
        => /\ out'.err # Nil
           /\ out'.result = RequeueAfter(requeueDelay)
           /\ \A typ \in {condSynced, condReady} :
                /\ HasStatus(out'.status.conditions, typ, "False")
                /\ HasStatus(objs'[o].status.conditions, typ, "False")
           /\ ("Delete" \o KindOf(o)) \notin Range(out'.calls)
           /\ objs'[o].exists /\ objs'[o].finalizer ]_vars

\* The listing failed in a delete reconcile of an object that nothing
\* references and that was Synced and Ready before: the deletion would have
\* gone ahead.
C22_Witness ==
  /\ out.fail = "referenceList" /\ out.object \in Objects
  /\ objs[out.object].exists /\ objs[out.object].deleting /\ objs[out.object].finalizer
  /\ \A x \in Objects \ {out.object} :
       objs[x].exists =>
         \A f \in DOMAIN NoResolved :
            objs[x].status.resolvedDependencies[f] # objs[out.object].status.externalID
  /\ \E i \in 1..Len(objs[out.object].status.conditions) :
       /\ objs[out.object].status.conditions[i].Type = condReady
       /\ objs[out.object].status.conditions[i].Reason = "Failed"
       /\ objs[out.object].status.conditions[i].Message
            = "Failed reference check (SecurityGroupRules): list SecurityGroupRules: "
              \o ErrAPI.text

\* C23: a status field or a condition entry that another writer wrote after a
\* reconcile read the object and before the reconcile's status patch, and that
\* the reconcile did not modify, still holds the other writer's value once the
\* patch is applied.
Patched(o) == out'.object = o /\ "write" \in DOMAIN out' /\ objs'[o].exists
C23_FieldOfOtherWriterKept ==
  [][\A o \in Objects :
       (/\ Patched(o)
        /\ out'.write = "lastSyncTime"
        /\ out'.status.lastSyncTime = objs[o].status.lastSyncTime)
       => objs'[o].status.lastSyncTime]_vars
C23_OtherWritersValueKept ==
  [][\A o \in Objects :
       Patched(o)
       => /\ out'.write = "condition"
             => HasStatus(objs'[o].status.conditions, condForeign, "True")
          /\ (/\ out'.write = "lastSyncTime"
              /\ out'.status.lastSyncTime = objs[o].status.lastSyncTime)
             => objs'[o].status.lastSyncTime]_vars
C23_FieldWitness ==
  /\ out.object # "" /\ "write" \in DOMAIN out /\ out.write = "lastSyncTime"
  /\ objs[out.object].exists
  /\ ~out.status.lastSyncTime /\ objs[out.object].status.lastSyncTime
  /\ out.status.conditions # <<>>

\* C24: a reconcile of an object that is not being deleted and that began
\* without the finalizer issues no provider call: it only adds the finalizer
\* (changing neither the status nor the cloud) and asks for a requeue; so every
\* object with a non-empty external ID carries its finalizer.
BeganWithoutFinalizer(o) ==
  out'.object = o /\ out'.fail # "get" /\ ~objs[o].deleting /\ ~objs[o].finalizer
C24_FinalizerBeforeAnyProviderCall ==
  [][/\ \A o \in Objects :
          BeganWithoutFinalizer(o)
          => /\ out'.calls = <<>>
             /\ cloud' = cloud
             /\ objs'[o].status = objs[o].status
             /\ Requeues(out'.result, out'.err)
             /\ out'.fail = "none" => objs'[o].finalizer /\ out'.result = RequeueNow
     /\ \A o \in Objects :
          objs'[o].exists /\ objs'[o].status.externalID # "" => objs'[o].finalizer]_vars
C24_Witness ==
  /\ out.object # "" /\ out.calls = <<>> /\ out.result = RequeueNow
  /\ objs[out.object].finalizer /\ objs[out.object].status.conditions = <<>>
  /\ \E o \in Objects : objs[o].exists /\ objs[o].status.externalID # ""

\* C25: while the referenced ProviderConfig is missing or not Ready, a reconcile
\* of an object that is not being deleted makes no provider call and acquires
\* no provider client, sets DependenciesReady to False, leaves the Synced and
\* Ready conditions, the external ID and the baseline as they were, and asks
\* for a requeue after 30 s.
ProviderConfigUnusable == ~pc.exists \/ ~pc.ready
Entry(conditions, typ) == {conditions[i] : i \in FindCondition(conditions, typ)}
WaitsForProviderConfig(o) ==
  /\ out'.calls = <<>>
  /\ cloud' = cloud
  /\ cache' = cache /\ nextClient' = nextClient
  /\ HasStatus(out'.status.conditions, condDependenciesReady, "False")
  /\ out'.fail # "statusPatch"
     => HasStatus(objs'[o].status.conditions, condDependenciesReady, "False")
  /\ \A t \in {condSynced, condReady} :
       Entry(objs'[o].status.conditions, t) = Entry(objs[o].status.conditions, t)
  /\ objs'[o].status.externalID = objs[o].status.externalID
  /\ objs'[o].status.lastAppliedSpec = objs[o].status.lastAppliedSpec
  /\ out'.result = RequeueAfter(30) /\ out'.err = Nil
C25_WaitsForProviderConfig ==
  [][\A o \in Objects :
       (/\ out'.object = o /\ out'.fail # "get"
        /\ ~objs[o].deleting /\ ProviderConfigUnusable)
       => WaitsForProviderConfig(o)]_vars
\* C25, for an object that already carries its finalizer.
C25_WaitsForProviderConfigOnceFinalized ==
  [][\A o \in Objects :
       (/\ out'.object = o /\ out'.fail # "get"
        /\ ~objs[o].deleting /\ objs[o].finalizer /\ ProviderConfigUnusable)
       => WaitsForProviderConfig(o)]_vars
C25_Witness ==
  /\ out.object # "" /\ ProviderConfigUnusable /\ out.calls = <<>>
  /\ out.result = RequeueAfter(30)
  /\ HasStatus(objs[out.object].status.conditions, condDependenciesReady, "False")
  /\ HasStatus(objs[out.object].status.conditions, condReady, "True")
  /\ objs[out.object].status.externalID # ""
  /\ ~objs[out.object].deleting

\* C26: when a dependency of an object in the CREATE path does not resolve
\* (the object it names is absent, has no external ID or is not Ready, or
\* reading it fails), the reconcile makes no Create<Kind> call, leaves the
\* external ID empty and the resolved dependencies as they were, sets
\* DependenciesReady and Ready to False, and asks for a requeue after 10 s,
\* which is less than the 30 s of the error delay.
Unresolvable(o, fail) ==
  \E k \in Range(DependenciesOf(KindOf(o))) :
    \E dep \in {SpecDependencies(scenario, o)[k]} :
      /\ dep.ID = ""
      /\ \/ dep = NoDependency
         \/ fail = "dependencyGet"
         \/ \E t \in {IF dep.Ref # "" THEN dep.Ref ELSE dep.Selector} :
              \/ ~objs[t].exists
              \/ objs[t].status.externalID = ""
              \/ ~IsStatusConditionTrue(objs[t].status.conditions, condReady)
C26_UnresolvedDependencyDefersCreate ==
  [][\A o \in Objects :
       (/\ out'.object = o /\ out'.path = "CREATE"
        /\ Unresolvable(o, out'.fail))
       => /\ ("Create" \o KindOf(o)) \notin Range(out'.calls)
          /\ cloud' = cloud
          /\ out'.status.externalID = "" /\ objs'[o].status.externalID = ""
          /\ objs'[o].status.resolvedDependencies = objs[o].status.resolvedDependencies
          /\ HasStatus(out'.status.conditions, condDependenciesReady, "False")
          /\ HasStatus(out'.status.conditions, condReady, "False")
          /\ out'.fail # "statusPatch"
             => /\ HasStatus(objs'[o].status.conditions, condDependenciesReady, "False")
                /\ HasStatus(objs'[o].status.conditions, condReady, "False")
          /\ out'.result = RequeueAfter(10) /\ out'.err = Nil
          /\ 10 < requeueDelay]_vars
C26_Witness ==
  /\ out.object \in {"sub", "nat", "snat", "sgr"} /\ out.path = "CREATE"
  /\ out.result = RequeueAfter(10) /\ out.fail = "none"
  /\ HasStatus(objs[out.object].status.conditions, condDependenciesReady, "False")
  /\ \E t \in Objects : /\ objs[t].exists /\ objs[t].status.externalID # ""
                        /\ SpecDependencies(scenario, out.object)[KindOf(t)].Ref = t

\* C27: for every kind, a reconcile whose Create<Kind> succeeded records the
\* returned external ID, sets lastAppliedSpec to the current spec and returns
\* a requeue request after 5 s, so that a following reconcile polls readiness.
Created(o) ==
  /\ out'.object = o /\ out'.path = "CREATE" /\ out'.fail = "none"
  /\ ("Create" \o KindOf(o)) \in Range(out'.calls)
  /\ Len(cloud') = Len(cloud) + 1
RecordsCreated(o) ==
  /\ out'.status.externalID = ResourceID(Len(cloud'))
  /\ objs'[o].status.externalID = ResourceID(Len(cloud'))
  /\ objs'[o].status.lastAppliedSpec = <<objs[o].spec>>
C27_CreateRecorded ==
  [][\A o \in Objects : Created(o) => RecordsCreated(o)]_vars
C27_CreateRecordedAndPolled ==
  [][\A o \in Objects :
       Created(o) => RecordsCreated(o) /\ out'.result = RequeueAfter(5)]_vars

\* C28: lastAppliedSpec is replaced by the current spec only in a reconcile
\* whose provider create or update call succeeded, or when it was nil while
\* the external ID was set; when Update<Kind> fails, the baseline and the
\* external ID stay as they were, Synced and Ready become False with reason
\* UpdateFailed, and the next reconcile detects the same drift and calls
\* Update<Kind> again.
CallSucceeded(o, call, point) ==
  /\ (call \o KindOf(o)) \in Range(out'.calls)
  /\ out'.fail \notin {point, "wait"}
UpdateFailed(o) ==
  /\ out'.object = o /\ ("Update" \o KindOf(o)) \in Range(out'.calls)
  /\ out'.fail = "apiUpdate"
FalseWithReason(conditions, typ, reason) ==
  \E c \in Entry(conditions, typ) : c.Status = "False" /\ c.Reason = reason
C28_BaselineFollowsTheProvider ==
  [][\A o \in Objects :
       /\ (/\ objs[o].exists /\ objs'[o].exists
           /\ objs'[o].status.lastAppliedSpec # objs[o].status.lastAppliedSpec
           /\ objs'[o].status.lastAppliedSpec # <<>>)
          => /\ out'.object = o
             /\ objs'[o].status.lastAppliedSpec = <<objs[o].spec>>
             /\ \/ CallSucceeded(o, "Create", "apiCreate")
                \/ CallSucceeded(o, "Update", "apiUpdate")
                \/ /\ objs[o].status.lastAppliedSpec = <<>>
                   /\ objs[o].status.externalID # ""
       /\ UpdateFailed(o)
          => /\ objs'[o].status.lastAppliedSpec = objs[o].status.lastAppliedSpec
             /\ objs'[o].status.externalID = objs[o].status.externalID
             /\ cloud' = cloud
             /\ FalseWithReason(objs'[o].status.conditions, condSynced, "UpdateFailed")
             /\ FalseWithReason(objs'[o].status.conditions, condReady, "UpdateFailed")
             /\ detectDrift(KindOf(o), objs'[o].spec, objs'[o].status.lastAppliedSpec[1])
       /\ (/\ out.object = o /\ out.fail = "apiUpdate"
           /\ out'.object = o /\ out'.again /\ out'.fail = "none"
           /\ out'.path = "UPDATE")
          => ("Update" \o KindOf(o)) \in Range(out'.calls)]_vars
C28_Witness ==
  /\ out.object # "" /\ out.fail = "apiUpdate" /\ out.path = "UPDATE"
  /\ ("Update" \o KindOf(out.object)) \in Range(out.calls)
  /\ objs[out.object].status.externalID # ""
  /\ objs[out.object].status.lastAppliedSpec # <<objs[out.object].spec>>
  /\ FalseWithReason(objs[out.object].status.conditions, condSynced, "UpdateFailed")

\* A delete reconcile of o that finds the finalizer and is let through by the
\* deletion guard, so that Delete goes on to acquire the provider client.
GuardPasses(o) ==
  \/ objs[o].status.externalID = ""
  \/ ~BlockOnAnyReference(NewReconciler(o, [fail |-> out'.fail, status |-> ""]),
                          objs[o].status.externalID, ReferenceChecks(KindOf(o)),
                          <<>>).blocked
Acquires(o) == DeleteReconcile(o) /\ objs[o].finalizer /\ GuardPasses(o)
\* The Orphaned or Deleted conditions: Synced True and Ready False, both with
\* the reason.
SyncedNotReady(conditions, reason) ==
  /\ \E c \in Entry(conditions, condSynced) : c.Status = "True" /\ c.Reason = reason
  /\ FalseWithReason(conditions, condReady, reason)
\* The object as the reconcile leaves it: the finalizer is gone (and the
\* object with it), or the removal failed and the stored status has the
\* conditions.
RemovesFinalizer(o, reason) ==
  IF out'.fail = "finalizerRemove"
  THEN objs'[o].finalizer /\ SyncedNotReady(objs'[o].status.conditions, reason)
  ELSE ~objs'[o].exists

\* C29 (first half): when the ProviderConfig does not exist, a delete
\* reconcile makes no provider delete call, marks the object Orphaned and
\* removes the finalizer.
C29_OrphanedWithoutProviderConfig ==
  [][\A o \in Objects :
       Acquires(o) /\ ~pc.exists /\ out'.fail # "providerInit"
       => /\ out'.calls = <<>>
          /\ cloud' = cloud
          /\ RemovesFinalizer(o, "Orphaned")]_vars
\* C29: so when the ProviderConfig does not exist; and when the provider
\* client cannot be acquired for any other reason the finalizer is kept,
\* Synced and Ready become False with reason DeletionFailed, and a requeue is
\* requested.
C29_DeleteWithoutProviderClient ==
  [][\A o \in Objects :
       /\ Acquires(o) /\ ~pc.exists /\ out'.fail # "providerInit"
          => /\ out'.calls = <<>>
             /\ cloud' = cloud
             /\ RemovesFinalizer(o, "Orphaned")
       /\ Acquires(o) /\ (out'.fail = "providerInit" \/ (pc.exists /\ ~secret.exists))
          => /\ out'.calls = <<>>
             /\ objs'[o].exists /\ objs'[o].finalizer
             /\ FalseWithReason(objs'[o].status.conditions, condSynced, "DeletionFailed")
             /\ FalseWithReason(objs'[o].status.conditions, condReady, "DeletionFailed")
             /\ Requeues(out'.result, out'.err)]_vars

\* The delete reconcile of o got its provider client and nothing failed in it.
Unhindered(o) ==
  Acquires(o) /\ out'.fail = "none" /\ pc.exists /\ secret.exists

\* C30 (what holds): with orphanOnDelete no delete reconcile calls
\* Delete<Kind>, and once the guard lets the deletion through the finalizer is
\* removed and the cloud is left as it was; without orphanOnDelete a
\* successful deletion callback is followed by the removal of the finalizer.
C30_OrphanNeverDeleted ==
  [][\A o \in Objects :
       /\ DeleteReconcile(o) /\ objs[o].orphanOnDelete
          => ("Delete" \o KindOf(o)) \notin Range(out'.calls) /\ cloud' = cloud
       /\ Unhindered(o) /\ objs[o].orphanOnDelete => ~objs'[o].exists
       /\ Unhindered(o) /\ ~objs[o].orphanOnDelete /\ CallbackSucceeded(o)
          => ~objs'[o].exists]_vars
\* C30: with orphanOnDelete no delete reconcile calls Delete<Kind>, and once
\* the guard lets the deletion through the object ends with Synced True and
\* Ready False, reason Orphaned, and without its finalizer; without
\* orphanOnDelete and with a successful deletion callback it ends with Synced
\* True and Ready False, reason Deleted.
C30_OrphanedOrDeletedAtTheEnd ==
  [][\A o \in Objects :
       /\ DeleteReconcile(o) /\ objs[o].orphanOnDelete
          => ("Delete" \o KindOf(o)) \notin Range(out'.calls)
       /\ Unhindered(o) /\ objs[o].orphanOnDelete
          => /\ ~(objs'[o].exists /\ objs'[o].finalizer)
             /\ SyncedNotReady(out'.status.conditions, "Orphaned")
       /\ Unhindered(o) /\ ~objs[o].orphanOnDelete /\ CallbackSucceeded(o)
          /\ objs[o].status.externalID # ""
          => /\ ~(objs'[o].exists /\ objs'[o].finalizer)
             /\ SyncedNotReady(out'.status.conditions, "Deleted")]_vars

\* Some object records o's external ID as the resolved dependency of o's kind.
Recorded(o) ==
  /\ objs[o].status.externalID # ""
  /\ (KindOf(o) \o "ID") \in DOMAIN NoResolved
  /\ \E x \in Objects \ {o} :
       /\ objs[x].exists
       /\ objs[x].status.resolvedDependencies[KindOf(o) \o "ID"]
            = objs[o].status.externalID
Finalized(o) == objs[o].exists /\ objs[o].finalizer

\* C31: once deletion is requested for an object that carries its finalizer,
\* and no other object records its external ID from then on, the requested
\* reconciles, fairly scheduled, eventually remove the finalizer (the calls
\* that fail are finitely many); and every delete reconcile that leaves the
\* finalizer in place, because the guard blocks or a call fails, requests a
\* further reconcile. A deletion once requested stays requested while the
\* finalizer is there, so the first half says that the object is not for ever
\* finalized, deleting and unrecorded.
C31_DeletionCompletesOrRetries ==
  /\ \A o \in Objects :
       []<>(~(Finalized(o) /\ objs[o].deleting) \/ Recorded(o))
  /\ [][\A o \in Objects :
          DeleteReconcile(o) /\ objs[o].finalizer /\ Finalized(o)'
          => Requeues(out'.result, out'.err) /\ o \in requeued']_vars
C31_Witness ==
  /\ out.object # "" /\ out.path = "DELETE" /\ ~objs[out.object].exists
  /\ ("Delete" \o KindOf(out.object)) \in Range(out.calls)
  /\ faults = 0
  /\ \E x \in Objects : objs[x].exists

\* A step of the ProviderConfig reconciler that got past the Get.
ProviderConfigReconciled == out'.object = "providerconfig" /\ out'.path # ""

\* C32: in a ProviderConfig reconcile a failed Validate sets Ready=false with
\* reason ValidationFailed, evicts the cache entry and requeues after 5
\* minutes; a failed client construction sets Ready=false with reason
\* ProviderInitializationFailed and requeues after 30 seconds; Ready becomes
\* true only in an invocation whose Validate succeeded; and on deletion the
\* entry is evicted before the finalizer is removed, so it is gone even when
\* the removal fails.
C32_ProviderConfigReconcile ==
  [][/\ ProviderConfigReconciled /\ out'.path = "VALIDATION_FAILED"
        => /\ FalseWithReason(out'.status.conditions, condReady, "ValidationFailed")
           /\ cache' = <<>>
           /\ out'.result = RequeueAfter(validationRequeueDelay) /\ out'.err = Nil
     /\ ProviderConfigReconciled /\ out'.path = "INIT_FAILED"
        => /\ FalseWithReason(out'.status.conditions, condReady,
                              "ProviderInitializationFailed")
           /\ out'.result = RequeueAfter(providerConfigRequeueDelay) /\ out'.err = Nil
     /\ (\/ ~IsStatusConditionTrue(pc.conditions, condReady)
            /\ IsStatusConditionTrue(pc'.conditions, condReady)
         \/ ProviderConfigReconciled
            /\ ~IsStatusConditionTrue(pc.conditions, condReady)
            /\ IsStatusConditionTrue(out'.status.conditions, condReady))
        => /\ ProviderConfigReconciled /\ out'.path = "VALIDATED"
           /\ out'.fail \notin {"validate", "providerInit"}
           /\ nextClient' >= 1
     /\ ProviderConfigReconciled /\ pc.deleting /\ pc.finalizer
        => cache' = <<>>]_vars

C32_Witness ==
  /\ out.object = "providerconfig" /\ out.path = "VALIDATION_FAILED"
  /\ cache = <<>> /\ evicted # {}
  /\ FalseWithReason(pc.conditions, condReady, "ValidationFailed")

\* A call of GetOrCreate that began after the invalidation has returned a
\* client.
ReturnedAfterInvalidation(w) ==
  /\ out.object = "providerconfig"
  /\ procs[w].at = "done" /\ procs[w].since # {} /\ ~procs[w].failed

\* C33: after the ProviderConfig reconciler invalidated the entry following a
\* failed validation, a GetOrCreate that starts afterwards returns a client
\* built after the invalidation, never one built before it, whatever other
\* calls were in flight during the invalidation.
C33_FreshClientAfterInvalidation ==
  \A w \in Workers : ReturnedAfterInvalidation(w) => procs[w].ret > out.built

\* What holds instead: the client the invalidation removed is not returned,
\* and a client built before the invalidation comes from the cache only.
C33_RemovedClientNotReturned ==
  \A w \in Workers :
     ReturnedAfterInvalidation(w)
     => /\ procs[w].ret # out.removed
        /\ procs[w].ret <= out.built => procs[w].cached

C33_RemovedWitness ==
  \E w \in Workers : ReturnedAfterInvalidation(w) /\ procs[w].ret > out.built

\* C34: when the construction of a client fails, GetOrCreate returns the
\* error and no client, and no step of the call has written the cache: it is
\* as it was; when the ProviderConfig is not found by the call's Get, the
\* call returns an error and the entry is evicted.
C34_FailedConstructionLeavesCache ==
  [][\A w \in Workers :
       /\ Steps(w) /\ procs[w].at = "create" /\ procs'[w].at = "done"
          => /\ procs'[w].failed /\ procs'[w].ret = 0
             /\ cache' = cache
       /\ Steps(w) /\ procs[w].at \in {"idle", "done", "secret", "check", "create"}
          => cache' = cache
       /\ Steps(w) /\ procs[w].at \in {"idle", "done"} /\ ~pc.exists
          => procs'[w].at = "evict"
       /\ Steps(w) /\ procs[w].at = "evict"
          => /\ procs'[w].at = "done" /\ procs'[w].failed /\ procs'[w].ret = 0
             /\ cache' = <<>>]_vars

\* The only worker that ever called has stored an entry in one call and
\* failed in a later one, and the entry is still there: the later call failed
\* in the construction.
C34_Witness ==
  /\ procs["w1"].at = "done" /\ procs["w1"].failed
  /\ procs["w2"].at = "idle"
  /\ cache # <<>> /\ evicted = {}

\* An update passed the webhook or was turned down by it.
Decided == out.object # "" /\ out.path \in {"ADMITTED", "REJECTED"} /\ "old" \in DOMAIN out

\* One of the immutable fields of the kind differs between the two objects.
ImmutableChanged(kind, old, new) ==
  \E f \in IF kind = "Subnet" THEN {"providerConfigRef", "network", "cidr", "gatewayIP"}
           ELSE {"providerConfigRef", "cidr"} :
     old.spec[f] # new.spec[f]

\* C35: ValidateUpdate of the Subnet validator, as of the other validators,
\* returns no error for an update that changes no immutable field and an
\* Invalid error exactly when an immutable field changed.
C35_RejectedExactlyWhenImmutableChanged ==
  Decided => (out.path = "REJECTED"
              <=> ImmutableChanged(KindOf(out.object), out.old, out.new))

\* What holds: the Network validator decides as claimed, both validators
\* report exactly the changed immutable fields, and the Subnet validator
\* admits nothing.
C35_NetworkDecidesAsClaimed ==
  Decided
  => /\ out.errors # <<>> <=> ImmutableChanged(KindOf(out.object), out.old, out.new)
     /\ KindOf(out.object) = "Network" => (out.path = "REJECTED" <=> out.errors # <<>>)
     /\ KindOf(out.object) = "Subnet" => out.path = "REJECTED"

C35_NetworkWitness ==
  /\ Decided /\ out.object = "net" /\ out.path = "ADMITTED"
  /\ out.old.spec.description # out.new.spec.description

\* The create followed step by step uses the external ID of Network n, and
\* its call is in flight or the resource it produced exists.
UsesNetwork(n) ==
  /\ procs # <<>>
  /\ objs[n].status.externalID # ""
  /\ procs[1].network = objs[n].status.externalID
  /\ procs[1].at = "call" \/ Lookup(cloud, procs[1].id) # {}

\* C36: while a Subnet or NATGateway create that resolved a Network's
\* external ID X is in flight, or has produced a resource that still exists,
\* the provider never receives DeleteNetwork(X), although the create's
\* reconcile has not yet stored its resolved dependencies.
C36_NoDeleteNetworkUnderCreate ==
  [][DeleteReconcile("net") /\ UsesNetwork("net")
       => "DeleteNetwork" \notin Range(out'.calls)]_vars

\* What holds: once the create's reconcile has patched its status, the guard
\* of the Network's deletion sees the record and no DeleteNetwork is sent
\* while the record is stored.
C36_GuardedOncePersisted ==
  [][DeleteReconcile("net") /\ UsesNetwork("net") /\ procs[1].at = "done"
       /\ objs[procs[1].object].exists
       /\ objs[procs[1].object].status.resolvedDependencies.NetworkID
            = objs["net"].status.externalID
       => "DeleteNetwork" \notin Range(out'.calls)]_vars

C36_GuardedWitness ==
  /\ out.object = "net" /\ out.path = "DELETE"
  /\ objs["net"].exists /\ objs["net"].deleting
  /\ UsesNetwork("net") /\ procs[1].at = "done"

\* The external ID of a status is empty exactly when its baseline is nil.
IDWithBaseline(status) == status.externalID = "" <=> status.lastAppliedSpec = <<>>

\* C37: starting from an empty status, the status in memory at the end of
\* every reconcile invocation, the one about to be patched, has an empty
\* external ID if and only if lastAppliedSpec is nil; and so has every stored
\* status.
C37_ExternalIDIffBaseline ==
  /\ out.object # "" => IDWithBaseline(out.status)
  /\ \A o \in Objects : objs[o].exists => IDWithBaseline(objs[o].status)

\* A reconcile that created the resource returns with both set.
C37_Witness ==
  /\ out.object # "" /\ ("Create" \o KindOf(out.object)) \in Range(out.calls)
  /\ out.status.externalID # "" /\ out.status.lastAppliedSpec = <<objs[out.object].spec>>
  /\ objs[out.object].status = out.status

\* A status whose Ready condition is true has an external ID.
ReadyHasID(status) ==
  IsStatusConditionTrue(status.conditions, condReady) => status.externalID # ""

\* The Ready condition of o's stored status becomes true in this step.
BecomesReady(o) ==
  /\ objs'[o].exists
  /\ IsStatusConditionTrue(objs'[o].status.conditions, condReady)
  /\ ~(objs[o].exists /\ IsStatusConditionTrue(objs[o].status.conditions, condReady))

HasNetworkID(status) ==
  status.externalID # "" => status.resolvedDependencies.NetworkID # ""

\* C39: starting from an empty status, a Subnet with a non-empty external ID
\* has a non-empty resolved NetworkID in every reachable state, so a delete
\* reconcile that reaches the deletion callback of such a Subnet calls
\* DeleteSubnet: the branch that returns success without a call is not taken.
C39_SubnetHasNetworkID ==
  /\ [](\A o \in Objects :
          KindOf(o) = "Subnet" /\ objs[o].exists => HasNetworkID(objs[o].status))
  /\ [](out.object # "" /\ KindOf(out.object) = "Subnet" => HasNetworkID(out.status))
  /\ [][\A o \in Objects :
          /\ KindOf(o) = "Subnet" /\ Unhindered(o)
          /\ objs[o].status.externalID # "" /\ ~objs[o].orphanOnDelete
          => /\ "DeleteSubnet" \in Range(out'.calls)
             /\ ~objs'[o].exists]_vars

C39_Witness ==
  /\ out.object = "sub" /\ out.path = "DELETE" /\ out.fail = "none"
  /\ "DeleteSubnet" \in Range(out.calls)
  /\ ~objs["sub"].exists
  /\ \E i \in DOMAIN cloud : cloud[i].kind = "Subnet" /\ ~cloud[i].exists
====
